---- MODULE Spec2Model ----
(***************************************************************************)
(* Model of the btrfs scrub engine of duet-sosp (fs/btrfs/scrub.c with the *)
(* adaptive-rate and duet extensions).                                     *)
(*                                                                         *)
(* The module holds two state machines over one variable list:             *)
(*   Spec      the read pipeline of one btrfs_scrub_dev call: the stripe   *)
(*             walker, the batch pool, the completion workers, the pacing  *)
(*             timers, pool growth and shrink, pause and cancel;           *)
(*   SpecRec   the error-recovery state machine of one errored block       *)
(*             (scrub_handle_errored_block and scrub_fixup_nodatasum).     *)
(* Each specification leaves the other machine's variables untouched.      *)
(***************************************************************************)
EXTENDS Integers, Sequences, FiniteSets, TLC

(***************************************************************************)
(* Program constants and the scaled sizes of the model.                    *)
(***************************************************************************)
PAGE_SIZE == 4096

\* pages per read batch (32 in the source; the model uses a small capacity,
\* as a device with a small bio_get_nr_vecs() gives the source)
SCRUB_PAGES_PER_RD_BIO == 3

\* the steady-state pool size (the literal 64 of scrub_setup_ctx and of
\* scrub_adjust_rate), scaled
DEFAULT_BIOS == 2

\* upper clamp of the rate controller (1024 in the source), scaled
MAX_BIOS_PER_SCTX == 3

\* nodesize in pages (tree blocks), sectorsize == PAGE_SIZE (data blocks)
NodePages == 2
nodesize == NodePages * PAGE_SIZE
sectorsize == PAGE_SIZE

\* map->stripe_len, in pages
StripePages == 4
stripe_len == StripePages * PAGE_SIZE

\* number of super block copies that fit the device
NumSupers == 1

\* operator deadline in seconds used by the adaptive runs, dev->bytes_used
DeadlineSecs == 1
UsedBytes == 2 * SCRUB_PAGES_PER_RD_BIO * PAGE_SIZE

\* bounds of the exploration
MaxNow == 2          \* wall clock values 0..MaxNow
MaxPauses == 1       \* btrfs_scrub_pause calls
MaxIoErrors == 1     \* read batches completing with an error

ECANCELED == 125

\* struct scrub_bio objects that can be alive at once: the walker grows the
\* pool one slot at a time up to this cap
MaxBioStructs == MAX_BIOS_PER_SCTX + 1

\* struct scrub_block objects alive at once: one per page in the pool, plus
\* the one scrub_pages is building
MaxBlocks == MaxBioStructs * SCRUB_PAGES_PER_RD_BIO + 1

(***************************************************************************)
(* The on-disk layout walked by the model: device extents (chunks) of one  *)
(* device and the extent items of the extent tree, sorted by objectid.     *)
(* Chunk 1 is a metadata chunk of one stripe holding two adjacent tree     *)
(* blocks; chunk 2 is a data chunk of two stripes holding a checksummed    *)
(* extent that crosses the stripe boundary and an extent without checksum. *)
(***************************************************************************)
Chunks ==
  << [chunk_offset |-> 0, dev_offset |-> 256 * PAGE_SIZE, length |-> stripe_len],
     [chunk_offset |-> stripe_len, dev_offset |-> 512 * PAGE_SIZE,
      length |-> 2 * stripe_len] >>

ExtentTree ==
  << [objectid |-> 0,              bytes |-> nodesize,      tree |-> TRUE,  csum |-> FALSE],
     [objectid |-> nodesize,       bytes |-> nodesize,      tree |-> TRUE,  csum |-> FALSE],
     [objectid |-> 2 * stripe_len - PAGE_SIZE, bytes |-> 2 * PAGE_SIZE,
                                                            tree |-> FALSE, csum |-> TRUE],
     [objectid |-> 2 * stripe_len + 2 * PAGE_SIZE, bytes |-> PAGE_SIZE,
                                                            tree |-> FALSE, csum |-> FALSE] >>

VARIABLES
  \* ---- struct btrfs_fs_info (scrub part) ----
  scrub_pause_req, scrubs_paused, scrubs_running, scrub_cancel_req,
  \* ---- struct btrfs_device ----
  scrub_device,
  \* ---- struct scrub_ctx ----
  deadline, bios, sbio, first_free, curr, bios_in_flight,
  bios_allocated, workers_pending, pending_removals, delay, cancel_req,
  bios_lock, stat,
  \* ---- struct scrub_block objects ----
  blocks,
  \* ---- threads ----
  w,          \* the walker: btrfs_scrub_dev and everything it calls
  rm,         \* the completion worker inside scrub_remove_bio, if any
  fixups,     \* queued scrub_fixup_nodatasum works
  asleep,     \* threads sleeping in wait_event until the next wake_up
  pauser,     \* the caller of btrfs_scrub_pause / btrfs_scrub_continue
  canceller,  \* the caller of btrfs_scrub_cancel / btrfs_scrub_cancel_dev
  now,        \* wall clock, seconds since sctx->t_start
  \* ---- observations (history) ----
  obs,
  \* ---- recovery machine ----
  rec

pipevars == << scrub_pause_req, scrubs_paused, scrubs_running, scrub_cancel_req,
               scrub_device, deadline, bios, sbio, first_free, curr,
               bios_in_flight, bios_allocated, workers_pending,
               pending_removals, delay, cancel_req, bios_lock, stat, blocks,
               w, rm, fixups, asleep, pauser, canceller, now, obs >>

vars == << scrub_pause_req, scrubs_paused, scrubs_running, scrub_cancel_req,
           scrub_device, deadline, bios, sbio, first_free, curr,
           bios_in_flight, bios_allocated, workers_pending,
           pending_removals, delay, cancel_req, bios_lock, stat, blocks,
           w, rm, fixups, asleep, pauser, canceller, now, obs, rec >>

(***************************************************************************)
(* Small helpers.                                                          *)
(***************************************************************************)
Min(a, b) == IF a < b THEN a ELSE b
CeilDiv(a, b) == (a \div b) + (IF a % b # 0 THEN 1 ELSE 0)

RECURSIVE IdSeq(_, _)
\* the k smallest elements of S, ascending (identities given to fresh objects)
IdSeq(S, k) ==
  IF k = 0 \/ S = {} THEN << >>
  ELSE LET m == CHOOSE x \in S : \A y \in S : x <= y
       IN  << m >> \o IdSeq(S \ {m}, k - 1)

(***************************************************************************)
(* Rate controller.                                                        *)
(***************************************************************************)
\* the literal 64 in the default of rem_bytes
DefaultRemBios == 64
BioBytes == SCRUB_PAGES_PER_RD_BIO * PAGE_SIZE
U16(x) == x % 65536

\* scrub_adjust_rate: returns << bios_per_sctx, delay >>
scrub_adjust_rate(used_bytes, dl, elapsed, total_scrubbed) ==
  LET rem_bytes == IF used_bytes > total_scrubbed
                   THEN used_bytes - total_scrubbed
                   ELSE DefaultRemBios * PAGE_SIZE * SCRUB_PAGES_PER_RD_BIO
  IN IF ~(elapsed < dl) THEN << DEFAULT_BIOS, 0 >>
     ELSE LET rem_time == dl - elapsed
              bytes_per_sec == CeilDiv(rem_bytes, rem_time)
          IN IF bytes_per_sec < BioBytes
             THEN << 1, BioBytes \div bytes_per_sec >>
             ELSE LET q  == U16(bytes_per_sec \div BioBytes)
                      q2 == IF bytes_per_sec % BioBytes # 0 THEN U16(q + 1) ELSE q
                  IN << IF q2 > MAX_BIOS_PER_SCTX THEN MAX_BIOS_PER_SCTX ELSE q2, 1 >>

(***************************************************************************)
(* The batch pool.  bios is the slot array (slot i of the source is        *)
(* bios[i+1]); its elements are identities of struct scrub_bio objects,    *)
(* whose fields live in sbio.                                              *)
(***************************************************************************)
bios_per_sctx == Len(bios)
Slot(i) == bios[i + 1]

\* a run in which every test of sctx->deadline took the adaptive branch
AdaptiveAlways == TRUE

\* the test of sctx->deadline that guards the adaptive code: pool growth,
\* pacing and the rate controller
Adaptive == deadline # 0

NewSbio(i, nxt) ==
  [index |-> i, next_free |-> nxt, page_count |-> 0, pagev |-> << >>,
   physical |-> 0, logical |-> 0, dev |-> "none", err |-> FALSE, st |-> "pool"]

\* the pool built by scrub_setup_ctx for n slots
SetupBios(n) == [i \in 1..n |-> i]
SetupSbio(n) == [id \in 1..n |-> NewSbio(id - 1, IF id # n THEN id ELSE -1)]

\* scrub_realloc_bios_array: << bios', sbio', first_free' >>
scrub_realloc_bios_array(new_size) ==
  LET old_size == bios_per_sctx
      ids == IdSeq((1..MaxBioStructs) \ DOMAIN sbio, new_size - old_size)
      nb  == bios \o ids
      ns  == [id \in DOMAIN sbio \cup {ids[k] : k \in 1..Len(ids)} |->
                IF id \in DOMAIN sbio THEN sbio[id]
                ELSE LET i == old_size + (CHOOSE k \in 1..Len(ids) : ids[k] = id) - 1
                     IN NewSbio(i, IF i # new_size - 1 THEN i + 1 ELSE first_free)]
  IN << nb, ns, old_size >>

RECURSIVE FreeWalk(_, _)
\* the indices met from index i through next_free, stopping at -1, at an
\* index outside the pool or after n steps
FreeWalk(i, n) ==
  IF i = -1 \/ n = 0 \/ i < 0 \/ i >= bios_per_sctx THEN << >>
  ELSE << i >> \o FreeWalk(sbio[Slot(i)].next_free, n - 1)

FreeList == FreeWalk(first_free, bios_per_sctx + 1)

(***************************************************************************)
(* Initial state: the context as scrub_setup_ctx leaves it, every thread   *)
(* before its first step.                                                  *)
(***************************************************************************)
InitStat == [data_bytes_scrubbed |-> 0, tree_bytes_scrubbed |-> 0,
             last_physical |-> 0, malloc_errors |-> 0]

InitW == [pc |-> "start", ret |-> 0, sup |-> 0, chunk |-> 1, logical |-> 0,
          physical |-> 0, logic_end |-> 0, slot |-> 1, stop_loop |-> FALSE,
          ex_logical |-> 0, ex_len |-> 0, ex_physical |-> 0, ex_end |-> 0,
          blk |-> 0, pg |-> 0, force |-> FALSE, after |-> "none"]

InitObs == [pauses |-> 0, ioerrs |-> 0, clog |-> {}, flog |-> {}, scrubbed |-> {},
            currw |-> {}]

RecIdle == [pc |-> "off"]

InitPipe ==
  /\ scrub_pause_req = 0 /\ scrubs_paused = 0 /\ scrubs_running = 0
  /\ scrub_cancel_req = 0
  /\ scrub_device = "NULL"
  /\ deadline \in {0, DeadlineSecs}
  /\ LET r == IF deadline = 0 THEN << DEFAULT_BIOS, 0 >>
              ELSE scrub_adjust_rate(UsedBytes, deadline, 0, 0)
     IN /\ bios = SetupBios(r[1])
        /\ sbio = SetupSbio(r[1])
        /\ delay = r[2]
  /\ first_free = 0 /\ curr = -1
  /\ bios_in_flight = 0 /\ bios_allocated = 0 /\ workers_pending = 0
  /\ pending_removals = 0 /\ cancel_req = 0
  /\ bios_lock = "free"
  /\ stat = InitStat
  /\ blocks = << >>
  /\ w = InitW
  /\ rm = [st |-> "idle"]
  /\ fixups = 0 /\ asleep = {}
  /\ pauser = "idle" /\ canceller = "idle"
  /\ now = 0
  /\ obs = InitObs

Init == InitPipe /\ rec = RecIdle

(***************************************************************************)
(* scrub_submit and scrub_add_page_to_rd_bio.                              *)
(***************************************************************************)
\* scrub_submit: << sbio', curr', bios_in_flight', bios_allocated' >> from the
\* given pool fields
scrub_submit(sb, cu, inflight, alloc) ==
  IF cu = -1 THEN << sb, cu, inflight, alloc >>
  ELSE << [sb EXCEPT ![Slot(cu)].st = "io"], -1, inflight + 1, alloc + 1 >>

\* the lock scrub_submit holds when it resets curr: curr_lock in an adaptive
\* run, none otherwise; obs.currw collects the locks curr was written under
SubmitLock(o, cu) ==
  IF cu = -1 THEN o
  ELSE [o EXCEPT !.currw = @ \cup {IF Adaptive THEN "curr_lock" ELSE "none"}]

\* the page-entry k of block b as the batch sees it
Spage(b, k) ==
  [blk |-> b, k |-> k, physical |-> blocks[b].physical + k * PAGE_SIZE,
   logical |-> blocks[b].logical + k * PAGE_SIZE, dev |-> blocks[b].dev]

\* a contiguity test that accepts every page
AppendableAny(sb, sp) == TRUE

\* a batch's tail is where the page starts, on the same device
Appendable(sb, sp) ==
  /\ sb.physical + sb.page_count * PAGE_SIZE = sp.physical
  /\ sb.logical + sb.page_count * PAGE_SIZE = sp.logical
  /\ sb.dev = sp.dev

\* scrub_pages, first part: allocate the block and its page-entries
\* a block on which scrub_pages holds no reference of its own
NewBlockNoRef(logical, physical, npages, flags, have_csum) ==
  [logical |-> logical, physical |-> physical, dev |-> "scrub_dev",
   page_count |-> npages, flags |-> flags, have_csum |-> have_csum,
   outstanding_pages |-> 0, ref_count |-> 0, no_io_error_seen |-> TRUE,
   added |-> 0, completes |-> 0]

NewBlock(logical, physical, npages, flags, have_csum) ==
  [logical |-> logical, physical |-> physical, dev |-> "scrub_dev",
   page_count |-> npages, flags |-> flags, have_csum |-> have_csum,
   outstanding_pages |-> 0, ref_count |-> 1, no_io_error_seen |-> TRUE,
   added |-> 0, completes |-> 0]

FreshBlockId == CHOOSE i \in 1..MaxBlocks :
                  i \notin DOMAIN blocks /\ \A j \in 1..(i-1) : j \in DOMAIN blocks

WithBlock(bl, id, rec_) == [i \in DOMAIN bl \cup {id} |-> IF i = id THEN rec_ ELSE bl[i]]
WithoutBlock(bl, id) == [i \in DOMAIN bl \ {id} |-> bl[i]]

\* scrub_block_put on block b of bl: << blocks', flog' >>
scrub_block_put(bl, fl, b) ==
  IF bl[b].ref_count = 1
  THEN << WithoutBlock(bl, b), fl \cup {bl[b].completes} >>
  ELSE << [bl EXCEPT ![b].ref_count = @ - 1], fl >>

(***************************************************************************)
(* wait_event / wake_up.  A thread that finds its condition false sleeps   *)
(* until the next wake_up on the queue it waits on; the walker's position  *)
(* tells which queue that is.                                              *)
(***************************************************************************)
ListWaitPcs == {"supers_wait", "stripe_wait", "pause_wait", "pause_free", "add", "chunk_wait",
                "chunk_workers", "tail", "tail2", "tail3"}
PauseWaitPcs == {"reada", "paused", "chunk_paused"}

\* wake_up(&sctx->list_wait), called by a thread other than the walker
wake_list(A) == IF w.pc \in ListWaitPcs THEN A \ {"w"} ELSE A
\* wake_up(&fs_info->scrub_pause_wait), called by a thread other than the walker
wake_pause(A) == (IF w.pc \in PauseWaitPcs THEN A \ {"w"} ELSE A) \ {"pauser", "canceller"}
\* a walker that changes scrubs_paused without wake_up
wake_nobody(A) == A

\* wake_up(&fs_info->scrub_pause_wait), called by the walker
wake_pause_w(A) == A \ {"pauser", "canceller"}

\* a wait_event protocol that parks the walker without draining its batches
WaitCondNoDrain(pc) ==
  CASE pc \in {"supers_wait", "stripe_wait", "chunk_wait", "tail2"} -> bios_in_flight = 0
    [] pc \in {"chunk_workers", "tail3"} -> workers_pending = 0
    [] pc = "tail" -> bios_allocated = 0
    [] pc \in {"reada", "paused", "chunk_paused"} -> scrub_pause_req = 0
    [] pc = "pause_free" -> first_free # -1
    [] pc = "add" -> curr # -1 \/ first_free # -1
    [] OTHER -> TRUE

\* a teardown that does not wait for bios_allocated to drop to 0
WaitCondNoAllocWait(pc) ==
  CASE pc \in {"supers_wait", "stripe_wait", "pause_wait", "chunk_wait", "tail2"} -> bios_in_flight = 0
    [] pc \in {"chunk_workers", "tail3"} -> workers_pending = 0
    [] pc \in {"reada", "paused", "chunk_paused"} -> scrub_pause_req = 0
    [] pc = "pause_free" -> first_free # -1
    [] pc = "add" -> curr # -1 \/ first_free # -1
    [] OTHER -> TRUE

\* the condition the walker waits for at each of its wait_event calls
WaitCond(pc) ==
  CASE pc \in {"supers_wait", "stripe_wait", "pause_wait", "chunk_wait", "tail2"} -> bios_in_flight = 0
    [] pc \in {"chunk_workers", "tail3"} -> workers_pending = 0
    [] pc = "tail" -> bios_allocated = 0
    [] pc \in PauseWaitPcs -> scrub_pause_req = 0
    [] pc = "pause_free" -> first_free # -1
    [] pc = "add" -> curr # -1 \/ first_free # -1
    [] OTHER -> TRUE

Awake == "w" \notin asleep

\* what the walker leaves alone unless an action says otherwise
WalkerFrame ==
  UNCHANGED << scrub_pause_req, scrub_cancel_req, deadline, workers_pending,
               pending_removals, delay, cancel_req, rm, fixups,
               pauser, canceller, now, rec >>
PoolFrame == UNCHANGED << bios, sbio, first_free, curr, bios_in_flight, bios_allocated,
                          bios_lock >>

(***************************************************************************)
(* The walker: btrfs_scrub_dev, scrub_supers, scrub_enumerate_chunks,      *)
(* scrub_chunk, scrub_stripe, scrub_extent, scrub_pages.                   *)
(***************************************************************************)
\* btrfs_sb_offset(i)
SbOffset(i) == IF i = 0 THEN 16 * PAGE_SIZE ELSE 16384 * PAGE_SIZE

\* scrub_pages up to its first scrub_add_page_to_rd_bio: << blocks', w' >>
BeginPages(wr, logical, physical, npages, flags, have_csum, force, after) ==
  LET id == FreshBlockId
  IN << WithBlock(blocks, id, NewBlock(logical, physical, npages, flags, have_csum)),
        [wr EXCEPT !.pc = "add", !.blk = id, !.pg = 0, !.force = force,
                   !.after = after] >>

\* btrfs_scrub_dev: the context is attached and counted as running
ScrubDevStart ==
  /\ w.pc = "start"
  /\ scrub_device' = "sctx"
  /\ scrubs_running' = scrubs_running + 1
  /\ w' = [w EXCEPT !.pc = "supers"]
  /\ WalkerFrame /\ PoolFrame
  /\ UNCHANGED << scrubs_paused, stat, blocks, asleep, obs >>

\* scrub_supers: one forced single-page block per super block copy
ScrubSupers ==
  /\ w.pc = "supers"
  /\ IF w.sup < NumSupers
     THEN LET r == BeginPages(w, SbOffset(w.sup), SbOffset(w.sup), 1, "super",
                              FALSE, TRUE, "supers")
          IN blocks' = r[1] /\ w' = r[2]
     ELSE blocks' = blocks /\ w' = [w EXCEPT !.pc = "supers_wait"]
  /\ WalkerFrame /\ PoolFrame
  /\ UNCHANGED << scrub_device, scrubs_running, scrubs_paused, stat, asleep, obs >>

SupersWait ==
  /\ w.pc = "supers_wait" /\ Awake /\ WaitCond(w.pc)
  /\ w' = [w EXCEPT !.pc = "enum"]
  /\ WalkerFrame /\ PoolFrame
  /\ UNCHANGED << scrub_device, scrubs_running, scrubs_paused, stat, blocks, asleep, obs >>

\* scrub_enumerate_chunks: next device extent, scrub_chunk, entry of scrub_stripe
EnumerateChunks ==
  /\ w.pc = "enum"
  /\ IF w.chunk > Len(Chunks)
     THEN w' = [w EXCEPT !.pc = "tail"]
     ELSE w' = [w EXCEPT !.pc = "stripe_wait",
                         !.logical = Chunks[w.chunk].chunk_offset]
  /\ WalkerFrame /\ PoolFrame
  /\ UNCHANGED << scrub_device, scrubs_running, scrubs_paused, stat, blocks, asleep, obs >>

\* scrub_stripe: drained, then counted paused for the readahead
StripeWait ==
  /\ w.pc = "stripe_wait" /\ Awake /\ WaitCond(w.pc)
  /\ scrubs_paused' = scrubs_paused + 1
  /\ asleep' = wake_pause_w(asleep)
  /\ w' = [w EXCEPT !.pc = "reada"]
  /\ WalkerFrame /\ PoolFrame
  /\ UNCHANGED << scrub_device, scrubs_running, stat, blocks, obs >>

\* scrub_stripe: readahead over, leave the paused state once no pause is
\* requested, set up the stripe loop
StripeReada ==
  /\ w.pc = "reada" /\ Awake /\ WaitCond(w.pc)
  /\ scrubs_paused' = scrubs_paused - 1
  /\ asleep' = wake_pause_w(asleep)
  /\ w' = [w EXCEPT !.pc = "loop",
                    !.logical = Chunks[w.chunk].chunk_offset,
                    !.physical = Chunks[w.chunk].dev_offset,
                    !.logic_end = Chunks[w.chunk].chunk_offset + Chunks[w.chunk].length,
                    !.ret = 0]
  /\ WalkerFrame /\ PoolFrame
  /\ UNCHANGED << scrub_device, scrubs_running, stat, blocks, obs >>

\* btrfs_search_slot + btrfs_previous_item: the last item at or before
\* logical, or the first item of the tree
SearchSlotIn(tree, logical) ==
  LET S == {i \in 1..Len(tree) : tree[i].objectid <= logical}
  IN IF S = {} THEN 1 ELSE CHOOSE i \in S : \A j \in S : j <= i

SearchSlot(logical) == SearchSlotIn(ExtentTree, logical)

\* a walker that goes on behind the item it stopped at instead of searching
SearchWNext(wr) == [wr EXCEPT !.slot = wr.slot + 1, !.stop_loop = FALSE, !.pc = "inner"]

\* scrub_stripe from "key.objectid = logical" to the entry of the inner loop
SearchW(wr) == [wr EXCEPT !.slot = SearchSlot(wr.logical), !.stop_loop = FALSE,
                          !.pc = "inner"]

\* scrub_stripe, top of the stripe loop: loop condition, cancel check, pause
\* check, extent search
StripeLoop ==
  /\ w.pc = "loop"
  /\ w' = IF ~(w.logical < w.logic_end) THEN [w EXCEPT !.pc = "out"]
          ELSE IF scrub_cancel_req > 0 \/ cancel_req > 0
          THEN [w EXCEPT !.pc = "out", !.ret = -ECANCELED]
          ELSE IF scrub_pause_req > 0 THEN [w EXCEPT !.pc = "pause_properly"]
          ELSE SearchW(w)
  /\ WalkerFrame /\ PoolFrame
  /\ UNCHANGED << scrub_device, scrubs_running, scrubs_paused, stat, blocks, asleep, obs >>

\* scrub_stripe, pause_properly: push the current batch
PauseProperly ==
  /\ w.pc = "pause_properly"
  /\ LET r == scrub_submit(sbio, curr, bios_in_flight, bios_allocated)
     IN sbio' = r[1] /\ curr' = r[2] /\ bios_in_flight' = r[3] /\ bios_allocated' = r[4]
  /\ w' = [w EXCEPT !.pc = "pause_wait"]
  /\ obs' = SubmitLock(obs, curr)
  /\ WalkerFrame
  /\ UNCHANGED << bios, first_free, bios_lock, scrub_device, scrubs_running,
                  scrubs_paused, stat, blocks, asleep >>

\* scrub_stripe: drained, the walker counts itself paused
PauseWait ==
  /\ w.pc = "pause_wait" /\ Awake /\ WaitCond(w.pc)
  /\ scrubs_paused' = scrubs_paused + 1
  /\ asleep' = wake_pause_w(asleep)
  /\ w' = [w EXCEPT !.pc = "paused"]
  /\ WalkerFrame /\ PoolFrame
  /\ UNCHANGED << scrub_device, scrubs_running, stat, blocks, obs >>

\* scrub_stripe: the pause request is over; in an adaptive run with an empty
\* free-list wait for a free batch first, else leave the paused state
PauseOver ==
  /\ w.pc = "paused" /\ Awake /\ WaitCond(w.pc)
  /\ IF Adaptive /\ first_free = -1
     THEN /\ w' = [w EXCEPT !.pc = "pause_free"]
          /\ UNCHANGED << scrubs_paused, asleep >>
     ELSE /\ scrubs_paused' = scrubs_paused - 1
          /\ asleep' = wake_pause_w(asleep)
          /\ w' = SearchW(w)
  /\ WalkerFrame /\ PoolFrame
  /\ UNCHANGED << scrub_device, scrubs_running, stat, blocks, obs >>

\* scrub_stripe: a batch became free; back to paused if a new pause request
\* came in meanwhile
PauseFree ==
  /\ w.pc = "pause_free" /\ Awake /\ WaitCond(w.pc)
  /\ IF scrub_pause_req > 0
     THEN /\ w' = [w EXCEPT !.pc = "paused"]
          /\ asleep' = wake_pause_w(asleep)
          /\ UNCHANGED scrubs_paused
     ELSE /\ scrubs_paused' = scrubs_paused - 1
          /\ asleep' = wake_pause_w(asleep)
          /\ w' = SearchW(w)
  /\ WalkerFrame /\ PoolFrame
  /\ UNCHANGED << scrub_device, scrubs_running, stat, blocks, obs >>

RECURSIVE ScanIn(_, _, _, _)
\* the inner loop of scrub_stripe from slot on: the next extent item to scrub
\* in the stripe at logical, or the break that ends the scan
ScanIn(tree, slot, logical, logic_end) ==
  IF slot > Len(tree) THEN [kind |-> "break", slot |-> slot, stop |-> TRUE]
  ELSE LET key == tree[slot]
       IN IF key.objectid + key.bytes <= logical
          THEN ScanIn(tree, slot + 1, logical, logic_end)
          ELSE IF key.objectid >= logical + stripe_len
          THEN [kind |-> "break", slot |-> slot, stop |-> key.objectid >= logic_end]
          ELSE IF key.objectid < logical /\ key.tree
          THEN ScanIn(tree, slot + 1, logical, logic_end)
          ELSE [kind |-> "extent", slot |-> slot, stop |-> FALSE]

Scan(slot, logical, logic_end) == ScanIn(ExtentTree, slot, logical, logic_end)

\* scrub_stripe, "trim extent to this stripe": << extent_logical, extent_len >>
TrimToStripe(key, logical) ==
  LET lo  == IF key.objectid < logical THEN logical ELSE key.objectid
      l1  == IF key.objectid < logical
             THEN key.bytes - (logical - key.objectid) ELSE key.bytes
      len == IF lo + l1 > logical + stripe_len
             THEN logical + stripe_len - lo ELSE l1
  IN << lo, len >>

\* scrub_stripe after the inner loop: advance the stripe, record last_physical
\* << w', stat' >>
AfterInner(wr, stop) ==
  LET ph == wr.physical + stripe_len
  IN << [wr EXCEPT !.logical = wr.logical + stripe_len, !.physical = ph,
                   !.stop_loop = stop, !.pc = IF stop THEN "out" ELSE "loop"],
        [stat EXCEPT !.last_physical =
            IF stop THEN Chunks[wr.chunk].dev_offset + Chunks[wr.chunk].length ELSE ph] >>

StripeInner ==
  /\ w.pc = "inner"
  /\ LET r == Scan(w.slot, w.logical, w.logic_end)
     IN IF r.kind = "extent"
        THEN w' = [w EXCEPT !.slot = r.slot, !.pc = "again"] /\ stat' = stat
        ELSE LET a == AfterInner([w EXCEPT !.slot = r.slot], r.stop)
             IN w' = a[1] /\ stat' = a[2]
  /\ WalkerFrame /\ PoolFrame
  /\ UNCHANGED << scrub_device, scrubs_running, scrubs_paused, blocks, asleep, obs >>

\* scrub_stripe at again: the mid-extent pause check, the trim of the extent to
\* the stripe, and the start of scrub_extent (byte accounting); obs.scrubbed
\* records the start of every extent portion handed to scrub_extent
StripeAgain ==
  /\ w.pc = "again"
  /\ IF scrub_pause_req > 0
     THEN w' = [w EXCEPT !.pc = "pause_properly"] /\ stat' = stat /\ obs' = obs
     ELSE LET key == ExtentTree[w.slot]
              lo  == TrimToStripe(key, w.logical)[1]
              len == TrimToStripe(key, w.logical)[2]
          IN /\ w' = [w EXCEPT !.pc = "extent", !.ex_logical = lo, !.ex_len = len,
                               !.ex_physical = lo - w.logical + w.physical,
                               !.ex_end = lo + len]
             /\ stat' = IF key.tree
                        THEN [stat EXCEPT !.tree_bytes_scrubbed = @ + len]
                        ELSE [stat EXCEPT !.data_bytes_scrubbed = @ + len]
             /\ obs' = [obs EXCEPT !.scrubbed = @ \cup {lo}]
  /\ WalkerFrame /\ PoolFrame
  /\ UNCHANGED << scrub_device, scrubs_running, scrubs_paused, blocks, asleep >>

\* scrub_extent: the next block of the extent goes to scrub_pages; at the end
\* of the extent, the skip_extent tail of scrub_stripe's inner loop
ScrubExtent ==
  /\ w.pc = "extent"
  /\ LET key == ExtentTree[w.slot]
         blocksize == IF key.tree THEN nodesize ELSE sectorsize
     IN IF w.ex_len > 0
        THEN LET l == Min(w.ex_len, blocksize)
                 r == BeginPages(w, w.ex_logical, w.ex_physical, CeilDiv(l, PAGE_SIZE),
                                 IF key.tree THEN "tree" ELSE "data",
                                 ~key.tree /\ key.csum, FALSE, "extent")
             IN blocks' = r[1] /\ w' = r[2] /\ stat' = stat
        ELSE /\ blocks' = blocks
             /\ IF w.ex_end < key.objectid + key.bytes
                THEN LET w1 == [w EXCEPT !.logical = w.logical + stripe_len,
                                         !.physical = w.physical + stripe_len]
                     IN IF w1.logical < key.objectid + key.bytes
                        THEN w' = [w1 EXCEPT !.pc = "again"] /\ stat' = stat
                        ELSE IF w1.logical >= w1.logic_end
                        THEN LET a == AfterInner(w1, TRUE)
                             IN w' = a[1] /\ stat' = a[2]
                        ELSE w' = [w1 EXCEPT !.slot = w.slot + 1, !.pc = "inner"]
                             /\ stat' = stat
                ELSE w' = [w EXCEPT !.slot = w.slot + 1, !.pc = "inner"] /\ stat' = stat
  /\ WalkerFrame /\ PoolFrame
  /\ UNCHANGED << scrub_device, scrubs_running, scrubs_paused, asleep, obs >>

\* scrub_add_page_to_rd_bio: grab the head of the free-list as current batch
\* (curr is assigned under list_lock)
AddGrab ==
  /\ w.pc = "add" /\ Awake /\ curr = -1 /\ first_free # -1
  /\ curr' = first_free
  /\ first_free' = sbio[Slot(first_free)].next_free
  /\ sbio' = [sbio EXCEPT ![Slot(first_free)].next_free = -1,
                          ![Slot(first_free)].page_count = 0,
                          ![Slot(first_free)].pagev = << >>]
  /\ obs' = [obs EXCEPT !.currw = @ \cup {"list_lock"}]
  /\ WalkerFrame
  /\ UNCHANGED << bios, bios_in_flight, bios_allocated, bios_lock, scrub_device,
                  scrubs_running, scrubs_paused, stat, blocks, w, asleep >>

\* scrub_add_page_to_rd_bio: no free batch in an adaptive run while a pause is
\* requested: grow the pool by one slot
AddGrow ==
  /\ w.pc = "add" /\ Awake /\ curr = -1 /\ first_free = -1
  /\ Adaptive /\ scrub_pause_req > 0
  /\ bios_lock = "free"
  /\ bios_per_sctx < MaxBioStructs
  /\ LET r == scrub_realloc_bios_array(bios_per_sctx + 1)
     IN bios' = r[1] /\ sbio' = r[2] /\ first_free' = r[3]
  /\ WalkerFrame
  /\ UNCHANGED << curr, bios_in_flight, bios_allocated, bios_lock, scrub_device,
                  scrubs_running, scrubs_paused, stat, blocks, w, asleep, obs >>

\* scrub_add_page_to_rd_bio: the page does not continue the current batch
AddSubmit ==
  /\ w.pc = "add" /\ curr # -1
  /\ sbio[Slot(curr)].page_count # 0
  /\ ~Appendable(sbio[Slot(curr)], Spage(w.blk, w.pg))
  /\ LET r == scrub_submit(sbio, curr, bios_in_flight, bios_allocated)
     IN sbio' = r[1] /\ curr' = r[2] /\ bios_in_flight' = r[3] /\ bios_allocated' = r[4]
  /\ obs' = SubmitLock(obs, curr)
  /\ WalkerFrame
  /\ UNCHANGED << bios, first_free, bios_lock, scrub_device, scrubs_running,
                  scrubs_paused, stat, blocks, w, asleep >>

\* the current batch with page sp appended (a fresh batch takes the page's
\* addresses)
WithPage(sb, sp) ==
  LET s0 == IF sb.page_count = 0
            THEN [sb EXCEPT !.physical = sp.physical, !.logical = sp.logical,
                            !.dev = sp.dev, !.err = FALSE]
            ELSE sb
  IN [s0 EXCEPT !.pagev = Append(@, sp), !.page_count = @ + 1]

\* scrub_add_page_to_rd_bio: append the page, count it on its block, submit
\* the batch when it is full
AddAppend ==
  /\ w.pc = "add" /\ curr # -1
  /\ LET sp == Spage(w.blk, w.pg)
         sb == sbio[Slot(curr)]
     IN /\ sb.page_count = 0 \/ Appendable(sb, sp)
        /\ LET s1 == [sbio EXCEPT ![Slot(curr)] = WithPage(sb, sp)]
               r  == IF s1[Slot(curr)].page_count = SCRUB_PAGES_PER_RD_BIO
                     THEN scrub_submit(s1, curr, bios_in_flight, bios_allocated)
                     ELSE << s1, curr, bios_in_flight, bios_allocated >>
           IN sbio' = r[1] /\ curr' = r[2] /\ bios_in_flight' = r[3]
              /\ bios_allocated' = r[4]
              /\ obs' = IF r[2] # curr THEN SubmitLock(obs, curr) ELSE obs
  /\ blocks' = [blocks EXCEPT ![w.blk].ref_count = @ + 1,
                              ![w.blk].outstanding_pages = @ + 1,
                              ![w.blk].added = @ + 1]
  /\ w' = [w EXCEPT !.pg = w.pg + 1,
                    !.pc = IF w.pg + 1 = blocks[w.blk].page_count
                           THEN "pages_end" ELSE "add"]
  /\ WalkerFrame
  /\ UNCHANGED << bios, first_free, bios_lock, scrub_device, scrubs_running,
                  scrubs_paused, stat, asleep >>

\* scrub_pages after the last page: the forced submit, the drop of the
\* walker's reference, and the return into scrub_supers or scrub_extent
PagesEnd ==
  /\ w.pc = "pages_end"
  /\ LET r == IF w.force THEN scrub_submit(sbio, curr, bios_in_flight, bios_allocated)
              ELSE << sbio, curr, bios_in_flight, bios_allocated >>
     IN sbio' = r[1] /\ curr' = r[2] /\ bios_in_flight' = r[3] /\ bios_allocated' = r[4]
  /\ LET l == blocks[w.blk].page_count * PAGE_SIZE
         p == scrub_block_put(blocks, obs.flog, w.blk)
     IN /\ blocks' = p[1]
        /\ obs' = [(IF w.force THEN SubmitLock(obs, curr) ELSE obs) EXCEPT !.flog = p[2]]
        /\ w' = IF w.after = "supers"
                THEN [w EXCEPT !.pc = "supers", !.sup = w.sup + 1, !.blk = 0, !.pg = 0]
                ELSE [w EXCEPT !.pc = "extent", !.ex_len = w.ex_len - l,
                               !.ex_logical = w.ex_logical + l,
                               !.ex_physical = w.ex_physical + l, !.blk = 0, !.pg = 0]
  /\ WalkerFrame
  /\ UNCHANGED << bios, first_free, bios_lock, scrub_device, scrubs_running,
                  scrubs_paused, stat, asleep >>

\* scrub_stripe at out, and the flush of scrub_enumerate_chunks after
\* scrub_chunk: push the current batch
StripeOut ==
  /\ w.pc = "out"
  /\ LET r == scrub_submit(sbio, curr, bios_in_flight, bios_allocated)
     IN sbio' = r[1] /\ curr' = r[2] /\ bios_in_flight' = r[3] /\ bios_allocated' = r[4]
  /\ w' = [w EXCEPT !.pc = "chunk_wait"]
  /\ obs' = SubmitLock(obs, curr)
  /\ WalkerFrame
  /\ UNCHANGED << bios, first_free, bios_lock, scrub_device, scrubs_running,
                  scrubs_paused, stat, blocks, asleep >>

\* scrub_enumerate_chunks: drained, counted paused
ChunkWait ==
  /\ w.pc = "chunk_wait" /\ Awake /\ WaitCond(w.pc)
  /\ scrubs_paused' = scrubs_paused + 1
  /\ asleep' = wake_pause_w(asleep)
  /\ w' = [w EXCEPT !.pc = "chunk_workers"]
  /\ WalkerFrame /\ PoolFrame
  /\ UNCHANGED << scrub_device, scrubs_running, stat, blocks, obs >>

ChunkWorkers ==
  /\ w.pc = "chunk_workers" /\ Awake /\ WaitCond(w.pc)
  /\ w' = [w EXCEPT !.pc = "chunk_paused"]
  /\ WalkerFrame /\ PoolFrame
  /\ UNCHANGED << scrub_device, scrubs_running, scrubs_paused, stat, blocks, asleep, obs >>

\* scrub_enumerate_chunks: leave the paused state, stop on an error of the
\* chunk, else go on with the next device extent
ChunkPaused ==
  /\ w.pc = "chunk_paused" /\ Awake /\ WaitCond(w.pc)
  /\ scrubs_paused' = scrubs_paused - 1
  /\ asleep' = wake_pause_w(asleep)
  /\ w' = IF w.ret # 0 THEN [w EXCEPT !.pc = "tail"]
          ELSE [w EXCEPT !.pc = "enum", !.chunk = w.chunk + 1]
  /\ WalkerFrame /\ PoolFrame
  /\ UNCHANGED << scrub_device, scrubs_running, stat, blocks, obs >>

\* btrfs_scrub_dev after scrub_enumerate_chunks: the three waits
TailAllocated ==
  /\ w.pc = "tail" /\ Awake /\ WaitCond(w.pc)
  /\ w' = [w EXCEPT !.pc = "tail2"]
  /\ WalkerFrame /\ PoolFrame
  /\ UNCHANGED << scrub_device, scrubs_running, scrubs_paused, stat, blocks, asleep, obs >>

TailInFlight ==
  /\ w.pc = "tail2" /\ Awake /\ WaitCond(w.pc)
  /\ scrubs_running' = scrubs_running - 1
  /\ asleep' = wake_pause_w(asleep)
  /\ w' = [w EXCEPT !.pc = "tail3"]
  /\ WalkerFrame /\ PoolFrame
  /\ UNCHANGED << scrub_device, scrubs_paused, stat, blocks, obs >>

TailWorkers ==
  /\ w.pc = "tail3" /\ Awake /\ WaitCond(w.pc)
  /\ w' = [w EXCEPT !.pc = "detach"]
  /\ WalkerFrame /\ PoolFrame
  /\ UNCHANGED << scrub_device, scrubs_running, scrubs_paused, stat, blocks, asleep, obs >>

\* btrfs_scrub_dev: the context is detached from the device (no wake_up)
Detach ==
  /\ w.pc = "detach"
  /\ scrub_device' = "NULL"
  /\ w' = [w EXCEPT !.pc = "free"]
  /\ WalkerFrame /\ PoolFrame
  /\ UNCHANGED << scrubs_running, scrubs_paused, stat, blocks, asleep, obs >>

\* scrub_free_ctx and the return of btrfs_scrub_dev
scrub_free_ctx ==
  /\ w.pc = "free"
  /\ w' = [w EXCEPT !.pc = "returned"]
  /\ WalkerFrame /\ PoolFrame
  /\ UNCHANGED << scrub_device, scrubs_running, scrubs_paused, stat, blocks, asleep, obs >>

\* wait_event with a false condition: the walker sleeps.  In an adaptive run
\* with a pause requested scrub_add_page_to_rd_bio grows the pool instead.
WalkerSleep ==
  /\ Awake
  /\ w.pc \in ListWaitPcs \cup PauseWaitPcs
  /\ ~WaitCond(w.pc)
  /\ w.pc = "add" => ~(Adaptive /\ scrub_pause_req > 0 /\ bios_per_sctx < MaxBioStructs)
  /\ asleep' = asleep \cup {"w"}
  /\ WalkerFrame /\ PoolFrame
  /\ UNCHANGED << scrub_device, scrubs_running, scrubs_paused, stat, blocks, w, obs >>

\* wait_event_timeout(list_wait, first_free != -1, BTRFS_SCRUB_WAIT_TO) expires
WalkerTimeout ==
  /\ ~Awake /\ w.pc = "add" /\ Adaptive
  /\ asleep' = asleep \ {"w"}
  /\ WalkerFrame /\ PoolFrame
  /\ UNCHANGED << scrub_device, scrubs_running, scrubs_paused, stat, blocks, w, obs >>

(***************************************************************************)
(* Read completion: scrub_bio_end_io_worker, the pacing timer, and         *)
(* scrub_bio_end_io_wrapup_worker with scrub_remove_bio.                   *)
(***************************************************************************)
\* a page of block b sits in the current batch or in a submitted batch other
\* than s, or behind position i of batch s itself
InBatch(sb, cu, s, i, b) ==
  \/ \E k \in (i + 1)..Len(sb[s].pagev) : sb[s].pagev[k].blk = b
  \/ \E t \in DOMAIN sb \ {s} :
        /\ sb[t].st = "io" \/ (cu # -1 /\ t = Slot(cu))
        /\ \E k \in 1..Len(sb[t].pagev) : sb[t].pagev[k].blk = b

\* scrub_block_complete on block b: the block's record, and what the run saw
\* (first run or not, all pages added or not, a page still in a batch or not)
scrub_block_complete(bl, b, busy) ==
  << [bl EXCEPT ![b].completes = @ + 1],
     [first |-> bl[b].completes = 0, all_added |-> bl[b].added = bl[b].page_count,
      outstanding |-> bl[b].outstanding_pages, busy |-> busy] >>

\* an errored data block without checksum goes to the deferred fixup worker
NeedsFixup(blk) == ~blk.no_io_error_seen /\ blk.flags = "data" /\ ~blk.have_csum

\* one turn of the second loop of scrub_bio_end_io_worker: page i of batch s;
\* acc = [bl, clog, flog, cand].  The page is counted off its block; a count
\* of 0 runs scrub_block_complete; then the page's reference is dropped.
EndIoPage(s, i, acc) ==
  LET b == sbio[s].pagev[i].blk
      Put(bl2, hit, seen, fix) ==
        LET p == scrub_block_put(bl2, acc.flog, b)
        IN [bl |-> p[1],
            clog |-> IF hit THEN acc.clog \cup {seen} ELSE acc.clog,
            flog |-> p[2],
            cand |-> acc.cand + (IF hit /\ fix THEN 1 ELSE 0)]
      Dec(bl1) ==
        LET hit == bl1[b].outstanding_pages = 0
            c   == scrub_block_complete(bl1, b, InBatch(sbio, curr, s, i, b))
        IN CHOOSE r \in {Put(bl2, hit, c[2], NeedsFixup(bl1[b])) :
                           bl2 \in {IF hit THEN c[1] ELSE bl1}} : TRUE
  IN CHOOSE r \in {Dec(bl1) :
                     bl1 \in {[acc.bl EXCEPT ![b].outstanding_pages = @ - 1]}} : TRUE

RECURSIVE EndIoPages(_, _, _)
\* the second loop of scrub_bio_end_io_worker over the pages of batch s from
\* position i on
EndIoPages(s, i, acc) ==
  IF i > Len(sbio[s].pagev) THEN acc
  ELSE CHOOSE r \in {EndIoPages(s, i + 1, a) : a \in {EndIoPage(s, i, acc)}} : TRUE

\* the first loop of scrub_bio_end_io_worker: a failed batch marks its blocks
MarkErrors(bl, pv) ==
  [b \in DOMAIN bl |->
     IF \E k \in 1..Len(pv) : pv[k].blk = b
     THEN [bl[b] EXCEPT !.no_io_error_seen = FALSE] ELSE bl[b]]

\* a batch whose pages are done: the fields nobody reads before the next
\* grab are forgotten
Done(sb, st) == [NewSbio(sb.index, -1) EXCEPT !.st = st]

\* the batch s pushed on the head of the free-list: << sbio', first_free' >>
PushFree(sb, s) ==
  << [sb EXCEPT ![s] = [Done(sb[s], "pool") EXCEPT !.next_free = first_free]],
     sb[s].index >>

\* scrub_bio_end_io_worker.  Without a deadline the wrapup follows in the same
\* call: push on the free-list, bios_in_flight and bios_allocated dropped,
\* list_wait woken.  With a deadline: bios_in_flight is dropped (no wake-up),
\* then the wrapup runs at once or the pacing timer is armed.
scrub_bio_end_io_worker(s) ==
  /\ sbio[s].st = "io"
  /\ \E err \in BOOLEAN :
       /\ err => obs.ioerrs < MaxIoErrors
       /\ \E r \in {EndIoPages(s, 1,
                       [bl |-> IF err THEN MarkErrors(blocks, sbio[s].pagev) ELSE blocks,
                        clog |-> obs.clog, flog |-> obs.flog, cand |-> 0])} :
             /\ blocks' = r.bl
             /\ obs' = [obs EXCEPT !.clog = r.clog, !.flog = r.flog,
                                   !.ioerrs = @ + (IF err THEN 1 ELSE 0)]
             \* scrub_handle_errored_block may queue scrub_fixup_nodatasum
             /\ \E k \in 0..r.cand :
                  /\ fixups' = fixups + k
                  /\ workers_pending' = workers_pending + k
                  /\ scrubs_running' = scrubs_running + k
                  /\ scrubs_paused' = scrubs_paused + k
  /\ bios_in_flight' = bios_in_flight - 1
  /\ IF Adaptive
     THEN /\ \E armed \in BOOLEAN :
               /\ armed => (scrub_pause_req = 0 /\ delay > 0)
               /\ sbio' = [sbio EXCEPT ![s] = Done(@, IF armed THEN "timer" ELSE "wrapq")]
          /\ UNCHANGED << first_free, bios_allocated, asleep >>
     ELSE /\ LET r == PushFree(sbio, s) IN sbio' = r[1] /\ first_free' = r[2]
          /\ bios_allocated' = bios_allocated - 1
          /\ asleep' = wake_list(asleep)
  /\ UNCHANGED << scrub_pause_req, scrub_cancel_req, scrub_device, deadline, bios,
                  curr, pending_removals, delay, cancel_req, bios_lock, stat, w, rm,
                  pauser, canceller, now, rec >>

\* scrub_bio_end_io_timer
scrub_bio_end_io_timer(s) ==
  /\ sbio[s].st = "timer"
  /\ sbio' = [sbio EXCEPT ![s].st = "wrapq"]
  /\ UNCHANGED << scrub_pause_req, scrubs_paused, scrubs_running, scrub_cancel_req,
                  scrub_device, deadline, bios, first_free, curr, bios_in_flight,
                  bios_allocated, workers_pending, pending_removals, delay,
                  cancel_req, bios_lock, stat, blocks, w, rm, fixups,
                  asleep, pauser, canceller, now, obs, rec >>

\* the rate check of scrub_bio_end_io_wrapup_worker: behind the goal, or
\* ahead of it by more than one batch, or past the deadline
NeedAdjust(elapsed) ==
  LET goal == (elapsed * UsedBytes) \div deadline
      progress == stat.data_bytes_scrubbed + stat.tree_bytes_scrubbed
      min_inc == PAGE_SIZE * SCRUB_PAGES_PER_RD_BIO
  IN elapsed > deadline \/ progress + min_inc < goal \/ goal + min_inc < progress

WorkerFrame ==
  UNCHANGED << scrub_pause_req, scrubs_paused, scrubs_running, scrub_cancel_req,
               scrub_device, deadline, workers_pending, cancel_req, stat, blocks,
               w, fixups, pauser, canceller, obs, rec >>

\* the second part of scrub_bio_end_io_wrapup_worker in an adaptive run, for
\* the pool sb and the removal count pr: with no removal pending the batch is
\* pushed on the free-list and bios_allocated dropped (list_wait woken); else
\* the worker goes for bios_lock to remove the batch
WrapList(sb, pr, s) ==
  IF pr = 0
  THEN /\ LET r == PushFree(sb, s) IN sbio' = r[1] /\ first_free' = r[2]
       /\ bios_allocated' = bios_allocated - 1
       /\ asleep' = wake_list(asleep)
  ELSE /\ sbio' = [sb EXCEPT ![s].st = "rmwait"]
       /\ UNCHANGED << first_free, bios_allocated, asleep >>

\* scrub_bio_end_io_wrapup_worker of an adaptive run: the clock is read (it
\* never runs backwards); when the scrub is off its goal the pool is resized
\* under bios_lock and the delay is set; then the batch is released
scrub_bio_end_io_wrapup_worker(s) ==
  /\ sbio[s].st = "wrapq"
  /\ \E elapsed \in now..MaxNow :
       /\ now' = elapsed
       /\ IF NeedAdjust(elapsed)
          THEN /\ bios_lock = "free"
               /\ LET a == scrub_adjust_rate(UsedBytes, deadline, elapsed,
                              stat.data_bytes_scrubbed + stat.tree_bytes_scrubbed)
                  IN /\ delay' = a[2]
                     /\ IF a[1] > bios_per_sctx
                        THEN LET r == scrub_realloc_bios_array(a[1])
                             IN /\ bios' = r[1]
                                /\ pending_removals' = pending_removals
                                /\ IF pending_removals = 0
                                   THEN LET q == [r[2] EXCEPT ![s] =
                                                    [Done(@, "pool") EXCEPT !.next_free = r[3]]]
                                        IN /\ sbio' = q /\ first_free' = sbio[s].index
                                           /\ bios_allocated' = bios_allocated - 1
                                           /\ asleep' = wake_list(asleep)
                                   ELSE /\ sbio' = [r[2] EXCEPT ![s].st = "rmwait"]
                                        /\ first_free' = r[3]
                                        /\ UNCHANGED << bios_allocated, asleep >>
                        ELSE LET pr == IF a[1] < bios_per_sctx
                                       THEN bios_per_sctx - a[1] ELSE pending_removals
                             IN /\ pending_removals' = pr
                                /\ bios' = bios
                                /\ WrapList(sbio, pr, s)
          ELSE /\ WrapList(sbio, pending_removals, s)
               /\ UNCHANGED << bios, pending_removals, delay >>
  /\ WorkerFrame
  /\ UNCHANGED << curr, bios_in_flight, bios_lock, rm >>

\* sbio without the struct s
Kfree(sb, s) == [t \in DOMAIN sb \ {s} |-> sb[t]]

\* scrub_remove_bio under bios_lock, up to the move of the last slot into the
\* hole; when the batch is pushed back or was the last slot, the call is over
\* and bios_allocated is dropped
RmStart(s) ==
  /\ sbio[s].st = "rmwait"
  /\ bios_lock = "free"
  /\ LET idx == sbio[s].index
         last == bios_per_sctx - 1
     IN IF pending_removals = 0
        THEN /\ LET r == PushFree(sbio, s) IN sbio' = r[1] /\ first_free' = r[2]
             /\ bios_allocated' = bios_allocated - 1
             /\ asleep' = wake_list(asleep)
             /\ UNCHANGED << bios, pending_removals, bios_lock, rm >>
        ELSE IF idx = last
        THEN /\ sbio' = Kfree(sbio, s)
             /\ bios' = SubSeq(bios, 1, last)
             /\ pending_removals' = pending_removals - 1
             /\ bios_allocated' = bios_allocated - 1
             /\ asleep' = wake_list(asleep)
             /\ UNCHANGED << first_free, bios_lock, rm >>
        ELSE /\ sbio' = [Kfree(sbio, s) EXCEPT ![bios[last + 1]].index = idx]
             /\ bios' = [bios EXCEPT ![idx + 1] = bios[last + 1]]
             /\ bios_lock' = "remove"
             /\ rm' = [st |-> "list", idx |-> idx]
             /\ UNCHANGED << first_free, pending_removals, bios_allocated, asleep >>
  /\ WorkerFrame
  /\ UNCHANGED << curr, bios_in_flight, delay, now >>

\* a free-list walk of scrub_remove_bio that redirects nothing
ListFixNone(sb, cur, last, idx, n) == sb

RECURSIVE ListFix(_, _, _, _, _)
\* the walk of scrub_remove_bio over the free-list from cur: the first batch
\* whose next_free is last gets idx instead (n bounds the walk)
ListFix(sb, cur, last, idx, n) ==
  IF cur = -1 \/ n = 0 THEN sb
  ELSE IF sb[Slot(cur)].next_free = last
  THEN [sb EXCEPT ![Slot(cur)].next_free = idx]
  ELSE ListFix(sb, sb[Slot(cur)].next_free, last, idx, n - 1)

\* scrub_remove_bio: the free-list reference to the last slot is redirected
RmList ==
  /\ rm.st = "list"
  /\ LET last == bios_per_sctx - 1
     IN IF first_free = last
        THEN first_free' = rm.idx /\ sbio' = sbio
        ELSE /\ first_free' = first_free
             /\ sbio' = ListFix(sbio, first_free, last, rm.idx, bios_per_sctx)
  /\ rm' = [rm EXCEPT !.st = "curr"]
  /\ WorkerFrame
  /\ UNCHANGED << bios, curr, bios_in_flight, bios_allocated, pending_removals,
                  delay, bios_lock, asleep, now >>

\* a scrub_remove_bio that leaves the current-slot index as it is
CurrFixNone(cur, last, idx) == cur

\* scrub_remove_bio under curr_lock: a current-slot index naming the last
\* slot is redirected to idx
CurrFix(cur, last, idx) == IF cur = last THEN idx ELSE cur

\* scrub_remove_bio: the current-slot index is redirected, the pool shrinks,
\* bios_lock is released, bios_allocated is dropped
RmCurr ==
  /\ rm.st = "curr"
  /\ curr' = CurrFix(curr, bios_per_sctx - 1, rm.idx)
  /\ bios' = SubSeq(bios, 1, bios_per_sctx - 1)
  /\ pending_removals' = pending_removals - 1
  /\ bios_lock' = "free"
  /\ rm' = [st |-> "idle"]
  /\ bios_allocated' = bios_allocated - 1
  /\ asleep' = wake_list(asleep)
  /\ obs' = IF curr = bios_per_sctx - 1
            THEN [obs EXCEPT !.currw = @ \cup {"curr_lock"}] ELSE obs
  /\ UNCHANGED << scrub_pause_req, scrubs_paused, scrubs_running, scrub_cancel_req,
                  scrub_device, deadline, workers_pending, cancel_req, stat, blocks,
                  w, fixups, pauser, canceller, rec >>
  /\ UNCHANGED << sbio, first_free, bios_in_flight, delay, now >>

\* scrub_fixup_nodatasum, as the pipeline sees it: the worker ends with
\* scrub_pending_trans_workers_dec
scrub_fixup_nodatasum ==
  /\ fixups > 0
  /\ fixups' = fixups - 1
  /\ scrubs_running' = scrubs_running - 1
  /\ scrubs_paused' = scrubs_paused - 1
  /\ workers_pending' = workers_pending - 1
  /\ asleep' = wake_pause(wake_list(asleep))
  /\ UNCHANGED << scrub_pause_req, scrub_cancel_req, scrub_device, deadline, bios,
                  sbio, first_free, curr, bios_in_flight, bios_allocated,
                  pending_removals, delay, cancel_req, bios_lock, stat, blocks, w,
                  rm, pauser, canceller, now, obs, rec >>

(***************************************************************************)
(* The callers of pause, continue and cancel, and the clock.               *)
(***************************************************************************)
EnvFrame ==
  UNCHANGED << scrubs_paused, scrubs_running, scrub_device, deadline, bios, sbio,
               first_free, curr, bios_in_flight, bios_allocated, workers_pending,
               pending_removals, delay, bios_lock, stat, blocks, w, rm, fixups,
               now, rec >>

\* btrfs_scrub_pause: the request is raised
PauseReq ==
  /\ pauser = "idle" /\ obs.pauses < MaxPauses
  /\ scrub_pause_req' = scrub_pause_req + 1
  /\ pauser' = "wait"
  /\ obs' = [obs EXCEPT !.pauses = @ + 1]
  /\ EnvFrame
  /\ UNCHANGED << scrub_cancel_req, cancel_req, canceller, asleep >>

\* btrfs_scrub_pause returns: every running scrub is counted paused
PauseAck ==
  /\ pauser = "wait" /\ "pauser" \notin asleep
  /\ scrubs_paused = scrubs_running
  /\ pauser' = "held"
  /\ EnvFrame
  /\ UNCHANGED << scrub_pause_req, scrub_cancel_req, cancel_req, canceller,
                  asleep, obs >>

\* btrfs_scrub_continue
Continue ==
  /\ pauser = "held"
  /\ scrub_pause_req' = scrub_pause_req - 1
  /\ asleep' = wake_pause(asleep)
  /\ pauser' = "idle"
  /\ EnvFrame
  /\ UNCHANGED << scrub_cancel_req, cancel_req, canceller, obs >>

\* btrfs_scrub_cancel: the filesystem-wide request is raised
CancelAll ==
  /\ canceller = "idle" /\ scrubs_running > 0
  /\ scrub_cancel_req' = scrub_cancel_req + 1
  /\ canceller' = "wait_all"
  /\ EnvFrame
  /\ UNCHANGED << scrub_pause_req, cancel_req, pauser, asleep, obs >>

\* btrfs_scrub_cancel_dev: the per-context request is raised
CancelDev ==
  /\ canceller = "idle" /\ scrub_device # "NULL"
  /\ cancel_req' = cancel_req + 1
  /\ canceller' = "wait_dev"
  /\ EnvFrame
  /\ UNCHANGED << scrub_pause_req, scrub_cancel_req, pauser, asleep, obs >>

\* btrfs_scrub_cancel returns
CancelAllDone ==
  /\ canceller = "wait_all" /\ "canceller" \notin asleep
  /\ scrubs_running = 0
  /\ scrub_cancel_req' = scrub_cancel_req - 1
  /\ canceller' = "done"
  /\ EnvFrame
  /\ UNCHANGED << scrub_pause_req, cancel_req, pauser, asleep, obs >>

\* btrfs_scrub_cancel_dev returns
CancelDevDone ==
  /\ canceller = "wait_dev" /\ "canceller" \notin asleep
  /\ scrub_device = "NULL"
  /\ canceller' = "done"
  /\ EnvFrame
  /\ UNCHANGED << scrub_pause_req, scrub_cancel_req, cancel_req, pauser,
                  asleep, obs >>

\* wait_event with a false condition in btrfs_scrub_pause
PauserSleep ==
  /\ pauser = "wait" /\ "pauser" \notin asleep
  /\ scrubs_paused # scrubs_running
  /\ asleep' = asleep \cup {"pauser"}
  /\ EnvFrame
  /\ UNCHANGED << scrub_pause_req, scrub_cancel_req, cancel_req, pauser, canceller,
                  obs >>

\* wait_event with a false condition in btrfs_scrub_cancel(_dev)
CancellerSleep ==
  /\ "canceller" \notin asleep
  /\ \/ canceller = "wait_all" /\ scrubs_running # 0
     \/ canceller = "wait_dev" /\ scrub_device # "NULL"
  /\ asleep' = asleep \cup {"canceller"}
  /\ EnvFrame
  /\ UNCHANGED << scrub_pause_req, scrub_cancel_req, cancel_req, pauser, canceller,
                  obs >>

Next ==
  \/ ScrubDevStart \/ ScrubSupers \/ SupersWait \/ EnumerateChunks \/ StripeWait
  \/ StripeReada \/ StripeLoop \/ PauseProperly \/ PauseWait \/ PauseOver
  \/ PauseFree \/ StripeInner \/ StripeAgain \/ ScrubExtent \/ AddGrab \/ AddGrow
  \/ AddSubmit \/ AddAppend \/ PagesEnd \/ StripeOut \/ ChunkWait \/ ChunkWorkers
  \/ ChunkPaused \/ TailAllocated \/ TailInFlight \/ TailWorkers \/ Detach
  \/ scrub_free_ctx \/ WalkerSleep \/ WalkerTimeout
  \/ \E s \in DOMAIN sbio : scrub_bio_end_io_worker(s)
  \/ \E s \in DOMAIN sbio : scrub_bio_end_io_timer(s)
  \/ \E s \in DOMAIN sbio : scrub_bio_end_io_wrapup_worker(s)
  \/ \E s \in DOMAIN sbio : RmStart(s)
  \/ RmList \/ RmCurr \/ scrub_fixup_nodatasum
  \/ PauseReq \/ PauseAck \/ Continue \/ PauserSleep
  \/ CancelAll \/ CancelDev \/ CancelAllDone \/ CancelDevDone \/ CancellerSleep

Spec == Init /\ [][Next]_vars

(***************************************************************************)
(* Error recovery: scrub_handle_errored_block on one errored block, and    *)
(* the deferred scrub_fixup_nodatasum.  rec holds the block's inputs, the  *)
(* media, the per-mirror recheck blocks, the statistics and a log of the   *)
(* writes issued.                                                          *)
(***************************************************************************)
\* mirrors of a block (at most BTRFS_MAX_MIRRORS of ctree.h)
MaxMirrors == 3
\* pages of a tree block; a data block is one sector of one page
RecPages == 2
\* failures the environment may inject during one recovery
MaxReadFails == 1     \* reads failing on a readable sector
MaxWriteFails == 1    \* writes failing
MaxAllocFails == 1    \* allocations failing

\* what a sector holds: the expected content, content failing the checksum,
\* a tree block header of another generation (checksum valid), or nothing
\* readable
DiskVals == {"ok", "corrupt", "stale", "unreadable"}

RecStat == [super_errors |-> 0, malloc_errors |-> 0, read_errors |-> 0,
            csum_errors |-> 0, verify_errors |-> 0, unverified_errors |-> 0,
            corrected_errors |-> 0, uncorrectable_errors |-> 0, sync_errors |-> 0]

RecPagesOf(is_metadata) == IF is_metadata THEN 1..RecPages ELSE {1}

\* one entry of sblocks_for_recheck after kzalloc
RecBlock(pages) ==
  [page_count |-> 0, no_io_error_seen |-> FALSE, header_error |-> FALSE,
   checksum_error |-> FALSE,
   io_error |-> [p \in pages |-> FALSE],
   buf |-> [p \in pages |-> "none"],
   rfail |-> [p \in pages |-> FALSE]]

\* the recovery of one block before its first step
RecStart(is_super, is_metadata, have_csum, readonly, is_dev_replace, nm, failed, bdev, disk) ==
  [pc |-> "entry", is_super |-> is_super, is_metadata |-> is_metadata,
   have_csum |-> have_csum, readonly |-> readonly,
   is_dev_replace |-> is_dev_replace, nm |-> nm, failed |-> failed,
   bdev |-> bdev, disk |-> disk, disk0 |-> disk,
   sb |-> [m \in 1..MaxMirrors |-> RecBlock(RecPagesOf(is_metadata))],
   stat |-> RecStat, wlog |-> {}, ret |-> 0, mi |-> 1, pg |-> 1, success |-> TRUE,
   clean_other |-> {}, badpages |-> {},
   rd |-> 0, wr |-> 0, al |-> 0, nomem |-> "none", recovery |-> FALSE]

\* the media a block can be found on: a stale header only on the first page
\* of a tree block
RecDisks(is_metadata, nm) ==
  {d \in [1..nm -> [RecPagesOf(is_metadata) -> DiskVals]] :
     \A m \in 1..nm : \A p \in RecPagesOf(is_metadata) :
        d[m][p] = "stale" => is_metadata /\ p = 1}

\* the blocks recovery is entered with: a super block; any block of two
\* mirrors in a read-write, read-only or replace scrub, possibly with the
\* other mirror's device missing; a block of three mirrors in a read-write
\* scrub.  And the blocks whose last page completes: a super block, and any
\* block of two mirrors.
RecKinds == {<< TRUE, FALSE >>, << FALSE, TRUE >>, << FALSE, FALSE >>}

RecInputs ==
  {RecStart(TRUE, TRUE, FALSE, ro, FALSE, 2, 1, [m \in 1..2 |-> TRUE],
            [m \in 1..2 |-> [p \in 1..RecPages |-> "corrupt"]]) : ro \in BOOLEAN}
  \cup
  UNION {{RecStart(FALSE, k[1], k[2], mode = "ro", mode = "replace", 2, f,
                   [m \in 1..2 |-> m = f \/ present], d) :
            mode \in {"rw", "ro", "replace"}, f \in 1..2, present \in BOOLEAN,
            d \in RecDisks(k[1], 2)} : k \in RecKinds}
  \cup
  UNION {{RecStart(FALSE, k[1], k[2], FALSE, FALSE, MaxMirrors, 1,
                   [m \in 1..MaxMirrors |-> TRUE], d) :
            d \in RecDisks(k[1], MaxMirrors)} : k \in RecKinds}
  \cup
  {[RecStart(TRUE, FALSE, FALSE, ro, FALSE, 1, 1, [m \in 1..1 |-> TRUE],
             [m \in 1..1 |-> [p \in 1..1 |-> v]]) EXCEPT !.pc = "complete"] :
     ro \in BOOLEAN, v \in DiskVals}
  \cup
  UNION {{[RecStart(FALSE, k[1], k[2], mode = "ro", mode = "replace", 2, f,
                    [m \in 1..2 |-> m = f \/ present], d) EXCEPT !.pc = "complete"] :
            mode \in {"rw", "ro", "replace"}, f \in 1..2, present \in BOOLEAN,
            d \in RecDisks(k[1], 2)} : k \in RecKinds}

\* the mirror has neither header error nor checksum error nor I/O error
RecClean(b) == ~b.header_error /\ ~b.checksum_error /\ b.no_io_error_seen

\* subsets of S with at most n elements, n <= 1 being all the model injects
UpTo(S, n) == {T \in SUBSET S : Cardinality(T) <= n}

\* scrub_recheck_block with scrub_recheck_block_checksum on mirror m of r:
\* the reads of T fail, the bio allocations of A fail; the new block
scrub_recheck_block(r, m, T, A) ==
  LET old == r.sb[m]
      pages == DOMAIN old.buf
      how == [p \in pages |->
                IF ~r.bdev[m] THEN "nodev"
                ELSE IF p \in A THEN "nobio"
                ELSE IF r.disk[m][p] = "unreadable" \/ p \in T THEN "fail"
                ELSE "ok"]
      buf == [p \in pages |->
                IF how[p] = "ok" THEN r.disk[m][p]
                ELSE IF how[p] = "fail" THEN "junk" ELSE old.buf[p]]
      noio == \A p \in pages : how[p] = "ok"
  IN [old EXCEPT
        !.no_io_error_seen = noio,
        !.header_error = noio /\ r.is_metadata /\ buf[1] = "stale",
        !.checksum_error = noio /\ (r.is_metadata \/ r.have_csum)
                                /\ \E p \in pages : buf[p] = "corrupt",
        !.io_error = [p \in pages |-> old.io_error[p] \/ how[p] \in {"nodev", "nobio"}],
        !.buf = buf,
        !.rfail = [p \in pages |-> how[p] # "ok"]]

\* what a sector holds after the page buffer v was written to it
Written(v) == IF v \in {"ok", "corrupt", "stale"} THEN v ELSE "corrupt"

\* the log entry of a write of page p as read from mirror g: over page p of
\* the failed mirror, by the block rewrite (via "block") or by the page-wise
\* repair (via "page"), or to the replace target (via "target")
WriteEntry(r, via, g, p, ok) ==
  [via |-> via, page |-> p, from |-> g, ok |-> ok,
   data |-> IF via = "target" /\ r.sb[g].io_error[p] THEN "zero" ELSE r.sb[g].buf[p],
   clean |-> ~r.sb[g].rfail[p] /\ ~r.sb[g].io_error[p] /\ r.sb[g].buf[p] # "none"]

EIO == 5

\* the labels corrected_error and did_not_correct_error
corrected_error(r) == [r EXCEPT !.stat.corrected_errors = @ + 1, !.pc = "done"]
did_not_correct_error(r) == [r EXCEPT !.stat.uncorrectable_errors = @ + 1, !.pc = "done"]

\* the label nodatasum_case: the fixup is queued unless its descriptor cannot
\* be allocated
nodatasum_case(r, nomem) ==
  IF nomem THEN did_not_correct_error([r EXCEPT !.al = @ + 1, !.nomem = "fixup"])
  ELSE [r EXCEPT !.pc = "fixup"]

\* the mirror index the for loops go on with from i: the failed mirror is
\* passed over
SkipFailed(r, i) == IF i = r.failed THEN i + 1 ELSE i

RecPageSet == DOMAIN rec.sb[1].buf

\* the pages whose read can be made to fail, and whose bio allocation can
ReadFails(m) ==
  IF ~rec.bdev[m] THEN {{}}
  ELSE UpTo({p \in RecPageSet : rec.disk[m][p] # "unreadable"}, MaxReadFails - rec.rd)
AllocFails(m) ==
  IF ~rec.bdev[m] THEN {{}} ELSE UpTo(RecPageSet, MaxAllocFails - rec.al)

\* rec after scrub_recheck_block on mirror m
Rechecked(m, T, A) ==
  [rec EXCEPT !.sb[m] = scrub_recheck_block(rec, m, T, A),
              !.rd = @ + Cardinality(T \ A), !.al = @ + Cardinality(A)]

\* the whole block read from mirror g goes to the replace target
scrub_write_block_to_dev_replace(r, g) ==
  [r EXCEPT !.wlog = @ \cup {WriteEntry(r, "target", g, p, TRUE) : p \in DOMAIN r.sb[g].buf}]

\* scrub_handle_errored_block up to the recheck of the failed mirror.  The
\* outcomes: "nomem" the array of recheck blocks cannot be allocated,
\* "nomem_page" scrub_setup_recheck_block cannot allocate a page (counted in
\* malloc_errors there), "eio" it cannot map the block.  rec.nomem records
\* a recovery that tests nothing before it repairs
readonly_never(r) == FALSE

\* if (sctx->readonly) goto out, before any repair (1450-1453)
readonly_out(r) == r.readonly

\* the allocation that failed, rec.recovery that the block went through
\* scrub_handle_errored_block.
HandleEntry ==
  /\ rec.pc = "entry"
  /\ \E out \in {"ok"} \cup (IF rec.al < MaxAllocFails /\ ~rec.is_super
                             THEN {"nomem", "nomem_page"} ELSE {})
                       \cup (IF rec.is_super \/ (rec.is_dev_replace /\ ~rec.is_metadata
                                                  /\ ~rec.have_csum)
                             THEN {} ELSE {"eio"}) :
       rec' = IF rec.is_super
              THEN [rec EXCEPT !.stat.super_errors = @ + 1, !.recovery = TRUE,
                               !.pc = "done"]
              ELSE IF rec.is_dev_replace /\ ~rec.is_metadata /\ ~rec.have_csum
              THEN nodatasum_case([rec EXCEPT !.recovery = TRUE], out = "nomem")
              ELSE IF out \in {"nomem", "nomem_page"}
              THEN [rec EXCEPT !.stat.malloc_errors = @ + 1, !.stat.read_errors = @ + 1,
                               !.stat.uncorrectable_errors = @ + 1, !.al = @ + 1,
                               !.nomem = IF out = "nomem" THEN "array" ELSE "page",
                               !.recovery = TRUE, !.pc = "done"]
              ELSE IF out = "eio"
              THEN [rec EXCEPT !.stat.read_errors = @ + 1,
                               !.stat.uncorrectable_errors = @ + 1, !.recovery = TRUE,
                               !.pc = "done"]
              ELSE [rec EXCEPT !.sb = [m \in 1..MaxMirrors |->
                                         IF m <= rec.nm
                                         THEN [@[m] EXCEPT !.page_count =
                                                 Cardinality(RecPageSet)]
                                         ELSE @[m]],
                               !.ret = 0, !.recovery = TRUE, !.pc = "recheck_bad"]
  /\ UNCHANGED pipevars

\* scrub_handle_errored_block: the failed mirror is read again page by page
\* and the error is classified
HandleRecheckBad ==
  /\ rec.pc = "recheck_bad"
  /\ \E T \in ReadFails(rec.failed), A \in AllocFails(rec.failed) :
       LET r0 == Rechecked(rec.failed, T, A)
           b  == r0.sb[rec.failed]
           r1 == [r0 EXCEPT !.badpages = {p \in RecPageSet : b.rfail[p]}]
           r2 == IF ~b.no_io_error_seen THEN [r1 EXCEPT !.stat.read_errors = @ + 1]
                 ELSE IF b.checksum_error THEN [r1 EXCEPT !.stat.csum_errors = @ + 1]
                 ELSE IF b.header_error THEN [r1 EXCEPT !.stat.verify_errors = @ + 1]
                 ELSE r1
       IN IF RecClean(b)
          THEN rec' = [(IF rec.is_dev_replace
                        THEN scrub_write_block_to_dev_replace(r1, rec.failed) ELSE r1)
                       EXCEPT !.stat.unverified_errors = @ + 1, !.pc = "done"]
          ELSE IF readonly_out(r2) THEN rec' = [r2 EXCEPT !.pc = "done"]
          ELSE IF ~rec.is_metadata /\ ~rec.have_csum
          THEN \E nomem \in BOOLEAN :
                 /\ nomem => r2.al < MaxAllocFails
                 /\ rec' = nodatasum_case(r2, nomem)
          ELSE rec' = [r2 EXCEPT !.pc = "others", !.mi = SkipFailed(r2, 1)]
  /\ UNCHANGED pipevars

\* a repair that writes only the pages marked io_error
RepairPagesIoOnly(r, force_write) ==
  {p \in DOMAIN r.sb[r.failed].buf : r.sb[r.failed].io_error[p]}

\* the pages scrub_repair_page_from_good_copy writes
RepairPages(r, force_write) ==
  {p \in DOMAIN r.sb[r.failed].buf :
     \/ force_write \/ r.sb[r.failed].header_error \/ r.sb[r.failed].checksum_error
     \/ r.sb[r.failed].io_error[p]}

\* scrub_repair_block_from_good_copy from mirror g, the writes of WF failing
scrub_repair_block_from_good_copy(r, g, force_write, WF) ==
  LET W == RepairPages(r, force_write)
  IN [r EXCEPT
        !.disk[r.failed] = [p \in DOMAIN @ |->
                              IF p \in W \ WF THEN Written(r.sb[g].buf[p]) ELSE @[p]],
        !.wlog = @ \cup {WriteEntry(r, "block", g, p, p \notin WF) : p \in W},
        !.wr = @ + Cardinality(WF),
        !.ret = IF WF = {} THEN 0 ELSE -EIO]

\* scrub_handle_errored_block, one turn of the loop over the other mirrors:
\* recheck, and the rewrite of the failed block when the mirror is clean
HandleRecheckOther ==
  /\ rec.pc = "others"
  /\ rec.mi <= MaxMirrors /\ rec.sb[rec.mi].page_count > 0
  /\ \E T \in ReadFails(rec.mi), A \in AllocFails(rec.mi) :
       LET m  == rec.mi
           r1 == Rechecked(m, T, A)
       IN IF ~RecClean(r1.sb[m])
          THEN rec' = [r1 EXCEPT !.mi = SkipFailed(r1, m + 1)]
          ELSE LET r2 == [r1 EXCEPT !.clean_other = @ \cup {m}]
               IN IF rec.is_dev_replace
                  THEN LET r3 == scrub_write_block_to_dev_replace(r2, m)
                       IN rec' = IF r3.ret = 0 THEN corrected_error(r3)
                                 ELSE [r3 EXCEPT !.mi = SkipFailed(r3, m + 1)]
                  ELSE \E WF \in UpTo(RepairPages(r2, rec.is_metadata \/ rec.have_csum),
                                      MaxWriteFails - r2.wr) :
                         LET r3 == scrub_repair_block_from_good_copy(r2, m,
                                      rec.is_metadata \/ rec.have_csum, WF)
                         IN rec' = IF r3.ret = 0 THEN corrected_error(r3)
                                   ELSE [r3 EXCEPT !.mi = SkipFailed(r3, m + 1)]
  /\ UNCHANGED pipevars

\* scrub_handle_errored_block after the loop over the other mirrors
HandleAfterOthers ==
  /\ rec.pc = "others"
  /\ ~(rec.mi <= MaxMirrors /\ rec.sb[rec.mi].page_count > 0)
  /\ rec' = IF rec.is_dev_replace
            THEN [rec EXCEPT !.pc = "replace_pages", !.pg = 1, !.success = TRUE]
            ELSE IF rec.sb[rec.failed].no_io_error_seen
            THEN did_not_correct_error(rec)
            ELSE [rec EXCEPT !.pc = "pagewise", !.pg = 1, !.success = TRUE]
  /\ UNCHANGED pipevars

\* the mirrors, in index order, whose page p has no io_error mark
PageSources(r, p) ==
  LET S == {m \in 1..r.nm : ~r.sb[m].io_error[p]}
  IN IdSeq(S, Cardinality(S))

\* scrub_handle_errored_block, one turn of the page-wise repair loop: a page
\* marked io_error is written from the first mirror whose page is not marked
\* and whose write succeeds
HandlePageWise ==
  /\ rec.pc = "pagewise" /\ rec.pg \in RecPageSet
  /\ LET p == rec.pg
         C == PageSources(rec, p)
     IN IF ~rec.sb[rec.failed].io_error[p]
        THEN rec' = [rec EXCEPT !.pg = p + 1]
        ELSE \E k \in 0..Min(Len(C), MaxWriteFails - rec.wr) :
               LET tried == {WriteEntry(rec, "page", C[j], p, FALSE) : j \in 1..k}
               IN rec' = IF k < Len(C)
                         THEN [rec EXCEPT
                                 !.wlog = @ \cup tried
                                            \cup {WriteEntry(rec, "page", C[k + 1], p, TRUE)},
                                 !.disk[rec.failed][p] = Written(rec.sb[C[k + 1]].buf[p]),
                                 !.sb[rec.failed].io_error[p] = FALSE,
                                 !.wr = @ + k, !.pg = p + 1]
                         ELSE [rec EXCEPT !.wlog = @ \cup tried, !.success = FALSE,
                                          !.wr = @ + k, !.pg = p + 1]
  /\ UNCHANGED pipevars

\* scrub_handle_errored_block after the page-wise loop: the final recheck of
\* the failed mirror and the verdict
HandleFinish ==
  /\ rec.pc = "pagewise" /\ rec.pg \notin RecPageSet
  /\ IF ~rec.success THEN rec' = did_not_correct_error(rec)
     ELSE IF rec.is_metadata \/ rec.have_csum
     THEN \E T \in ReadFails(rec.failed), A \in AllocFails(rec.failed) :
            LET r1 == Rechecked(rec.failed, T, A)
            IN rec' = IF RecClean(r1.sb[rec.failed]) THEN corrected_error(r1)
                      ELSE did_not_correct_error(r1)
     ELSE rec' = corrected_error(rec)
  /\ UNCHANGED pipevars

\* scrub_handle_errored_block in replace mode, one turn of the page loop:
\* the page goes to the target from the first mirror whose page is not
\* marked io_error, or zero-filled from the failed mirror
HandleReplacePage ==
  /\ rec.pc = "replace_pages" /\ rec.pg \in RecPageSet
  /\ LET p == rec.pg
         C == PageSources(rec, p)
         last == (p + 1) \notin RecPageSet
     IN \E k \in 0..Min(Len(C), MaxAllocFails - rec.al) :
          rec' = [rec EXCEPT
                    !.wlog = @ \cup {WriteEntry(rec, "target", C[j], p, FALSE) : j \in 1..k}
                               \cup (IF k < Len(C)
                                     THEN {WriteEntry(rec, "target", C[k + 1], p, TRUE)}
                                     ELSE {WriteEntry(rec, "target", rec.failed, p, TRUE)}),
                    !.success = @ /\ k < Len(C),
                    !.al = @ + k, !.pg = p + 1,
                    !.pc = IF last THEN "done" ELSE @]
  /\ UNCHANGED pipevars

\* scrub_fixup_nodatasum with scrub_fixup_readpage: the path or the
\* transaction may fail; no inode may take the repair (a dirty page, a failed
\* write or read); an up-to-date page of the page cache is written over the
\* failed sector; or the regular read path repairs it from a readable mirror
FixupNodatasum ==
  /\ rec.pc = "fixup"
  /\ \E out \in {"trans", "eio", "cache"}
                  \cup (IF rec.al < MaxAllocFails THEN {"nomem"} ELSE {})
                  \cup (IF \E m \in 1..rec.nm : m # rec.failed /\ rec.bdev[m]
                                               /\ rec.disk[m][1] # "unreadable"
                        THEN {"readpath"} ELSE {}) :
       rec' = CASE out = "nomem" ->
                     [rec EXCEPT !.stat.malloc_errors = @ + 1,
                                 !.stat.uncorrectable_errors = @ + 1,
                                 !.al = @ + 1, !.nomem = "path", !.pc = "done"]
                [] out \in {"trans", "eio"} -> did_not_correct_error(rec)
                [] out = "cache" ->
                     corrected_error(
                       [rec EXCEPT !.disk[rec.failed][1] = "ok",
                                   !.wlog = @ \cup {[via |-> "pagecache", page |-> 1,
                                                     from |-> 0, ok |-> TRUE,
                                                     data |-> "ok", clean |-> TRUE]}])
                [] out = "readpath" ->
                     LET g == CHOOSE m \in 1..rec.nm :
                                /\ m # rec.failed /\ rec.bdev[m]
                                /\ rec.disk[m][1] # "unreadable"
                                /\ \A n \in 1..(m - 1) :
                                     n = rec.failed \/ ~rec.bdev[n]
                                     \/ rec.disk[n][1] = "unreadable"
                     IN corrected_error(
                          [rec EXCEPT !.disk[rec.failed][1] = rec.disk[g][1],
                                      !.wlog = @ \cup {[via |-> "readpath", page |-> 1,
                                                        from |-> g, ok |-> TRUE,
                                                        data |-> rec.disk[g][1],
                                                        clean |-> TRUE]}])
  /\ UNCHANGED pipevars

\* scrub_checksum_super: a super block whose bytenr, fsid or checksum is wrong
\* (fail_cor) or whose generation is not the expected one (fail_gen) is
\* counted once; the sum of the two is returned in ret
scrub_checksum_super(r) ==
  LET fail_cor == IF r.disk[r.failed][1] = "corrupt" THEN 1 ELSE 0
      fail_gen == IF r.disk[r.failed][1] = "stale" THEN 1 ELSE 0
  IN [r EXCEPT !.stat.super_errors = @ + (IF fail_cor + fail_gen > 0 THEN 1 ELSE 0),
               !.ret = fail_cor + fail_gen]

\* scrub_checksum_data: no checksum, nothing to verify; on a mismatch with
\* the checksum carried by the block (the content is wrong, or the carried
\* checksum is stale) the checksum is looked up again and compared with the
\* computed one: equal counts a sync error, different fails the block
scrub_checksum_data(r, csum_stale, new_csum_equal) ==
  IF ~r.have_csum THEN [r EXCEPT !.ret = 0]
  ELSE IF r.disk[r.failed][1] = "ok" /\ ~csum_stale THEN [r EXCEPT !.ret = 0]
  ELSE IF new_csum_equal THEN [r EXCEPT !.stat.sync_errors = @ + 1, !.ret = 0]
  ELSE [r EXCEPT !.ret = 1]

\* scrub_checksum_tree_block: the header fields of the first page and the
\* checksum over all pages
scrub_checksum_tree_block(r) ==
  LET fail == r.disk[r.failed][1] = "stale"
      crc_fail == \E p \in DOMAIN r.disk[r.failed] : r.disk[r.failed][p] = "corrupt"
  IN [r EXCEPT !.ret = IF fail \/ crc_fail THEN 1 ELSE 0]

\* the verifier of the block's kind, the result of scrub_checksum_super
\* being discarded
ChecksumOf(r, csum_stale, new_csum_equal) ==
  IF r.is_super THEN [scrub_checksum_super(r) EXCEPT !.ret = 0]
  ELSE IF r.is_metadata THEN scrub_checksum_tree_block(r)
  ELSE scrub_checksum_data(r, csum_stale, new_csum_equal)

\* a scrub_checksum that hands a failed super block to recovery, as it does
\* a failed data or tree block
scrub_checksum_handling_super(r, csum_stale, new_csum_equal) ==
  LET c == IF r.is_super THEN scrub_checksum_super(r)
           ELSE ChecksumOf(r, csum_stale, new_csum_equal)
  IN IF c.ret # 0 THEN [c EXCEPT !.pc = "entry"] ELSE [c EXCEPT !.pc = "done"]

\* a scrub_checksum that returns its result without calling
\* scrub_handle_errored_block
scrub_checksum_reporting_only(r, csum_stale, new_csum_equal) ==
  [ChecksumOf(r, csum_stale, new_csum_equal) EXCEPT !.pc = "done"]

\* scrub_checksum: the block is verified by its kind, and a result other
\* than 0 calls scrub_handle_errored_block; for a super block ret stays 0
scrub_checksum(r, csum_stale, new_csum_equal) ==
  LET c == ChecksumOf(r, csum_stale, new_csum_equal)
  IN IF c.ret # 0 THEN [c EXCEPT !.pc = "entry"] ELSE [c EXCEPT !.pc = "done"]

\* the block as read by the scrub goes to the replace target
WriteCompleted(r) ==
  [r EXCEPT !.wlog = @ \cup {[via |-> "target", page |-> p, from |-> r.failed,
                              ok |-> TRUE, data |-> r.disk[r.failed][p],
                              clean |-> TRUE] : p \in DOMAIN r.disk[r.failed]}]

\* scrub_block_complete on a block whose pages have all completed: a block
\* with an I/O error goes to scrub_handle_errored_block, any other block to
\* scrub_checksum, and in replace mode a block that passed is written to the
\* target.  The second lookup of a data checksum finds the checksum of the
\* expected content, or fails and leaves new_csum uninitialized.
BlockComplete ==
  /\ rec.pc = "complete"
  /\ LET unreadable == \E p \in RecPageSet : rec.disk[rec.failed][p] = "unreadable"
     IN \E io_fail \in {unreadable} \cup (IF rec.rd < MaxReadFails THEN {TRUE} ELSE {}),
           csum_stale \in BOOLEAN, found \in BOOLEAN, garbage_equal \in BOOLEAN :
          LET new_csum_equal == IF found THEN rec.disk[rec.failed][1] = "ok"
                                ELSE garbage_equal
              c == scrub_checksum(rec, csum_stale, new_csum_equal)
          IN rec' = IF io_fail
                    THEN [rec EXCEPT !.pc = "entry",
                                     !.rd = @ + (IF unreadable THEN 0 ELSE 1)]
                    ELSE IF c.pc = "done" /\ rec.is_dev_replace THEN WriteCompleted(c)
                    ELSE c
  /\ UNCHANGED pipevars

RecInit == InitPipe /\ deadline = 0 /\ rec \in RecInputs

RecNext ==
  \/ HandleEntry \/ HandleRecheckBad \/ HandleRecheckOther \/ HandleAfterOthers
  \/ HandlePageWise \/ HandleFinish \/ HandleReplacePage \/ FixupNodatasum
  \/ BlockComplete

SpecRec == RecInit /\ [][RecNext]_vars

(***************************************************************************)
(* The rate controller on its own: scrub_adjust_rate applied to one set of *)
(* inputs held in rec.                                                     *)
(***************************************************************************)
\* deadlines 1..MaxRateDeadline, elapsed times 0..MaxRateDeadline + 1
MaxRateDeadline == 3

\* byte counts around one batch, around the clamp and around the width of
\* the u16 pool size
RateBytes ==
  {0, 1, BioBytes - 1, BioBytes, BioBytes + 1, 2 * BioBytes,
   MAX_BIOS_PER_SCTX * BioBytes, (MAX_BIOS_PER_SCTX + 1) * BioBytes,
   DefaultRemBios * BioBytes, 65535 * BioBytes, 65535 * BioBytes + 1,
   65536 * BioBytes, 65536 * BioBytes + 1, 65537 * BioBytes,
   2 * 65536 * BioBytes}

\* sctx->used_bytes, sctx->deadline, the seconds since t_start and the bytes
\* scrubbed so far, before the call
RateInputs ==
  [pc : {"rate"}, used_bytes : RateBytes, deadline : 1..MaxRateDeadline,
   elapsed : 0..(MaxRateDeadline + 1),
   total_scrubbed : {0, 1, BioBytes, 2 * BioBytes},
   bios_per_sctx : {0}, delay : {0}]

\* one call of scrub_adjust_rate; rec.elapsed is the elapsed time after the
\* function's own reading of the clock
AdjustRate ==
  /\ rec.pc = "rate"
  /\ rec' = LET a == scrub_adjust_rate(rec.used_bytes, rec.deadline, rec.elapsed,
                                      rec.total_scrubbed)
            IN [rec EXCEPT !.bios_per_sctx = a[1], !.delay = a[2], !.pc = "rated"]
  /\ UNCHANGED pipevars

RateInit == InitPipe /\ deadline = 0 /\ rec \in RateInputs

RateNext == AdjustRate

SpecRate == RateInit /\ [][RateNext]_vars

(***************************************************************************)
(* The range bitmap of a block task (bittree.c): a tree of bitmap nodes,   *)
(* one bit per granule of bt->range bytes.  rec holds the tree before and  *)
(* after the last call, the call and its return value.                     *)
(***************************************************************************)
\* bits of one bitmap node (32768 * 8 in the source), bits of one word of
\* the bitmap (64), bytes per bit (bt->range, the block size of the file
\* system), all scaled
DUET_BITS_PER_NODE == 4
BITS_PER_LONG == 2
BtRange == 2
\* bitmap nodes the byte addresses of the model fall into, longest range
BtNodes == 2
MaxBtLen == 5

\* bytes covered by one node
NodeSpan == BtRange * DUET_BITS_PER_NODE
BtAddrs == 0..(BtNodes * NodeSpan - 1)
\* the keys bnode->idx of the nodes
NodeStarts == {k * NodeSpan : k \in 0..(BtNodes - 1)}
\* a node that is not in the tree has present = FALSE
EmptyTree == [n \in NodeStarts |-> [present |-> FALSE, done |-> {}]]

\* the bit positions of a word selected by the kernel's masks
BITMAP_FIRST_WORD_MASK(start) ==
  {b \in 0..(BITS_PER_LONG - 1) : b >= start % BITS_PER_LONG}
BITMAP_LAST_WORD_MASK(nbits) ==
  IF nbits % BITS_PER_LONG # 0
  THEN {b \in 0..(BITS_PER_LONG - 1) : b < nbits % BITS_PER_LONG}
  ELSE 0..(BITS_PER_LONG - 1)

\* the bound test of duet_bmap_set and duet_bmap_chk: the offset in the node
\* plus the length against the node's start plus its span
RangeRejected(bofft, blen, bstart, bgran) ==
  bofft + blen >= bstart + DUET_BITS_PER_NODE * bgran

\* duet_bmap_set: sets or clears the bits of [start, start + len) in the
\* bitmap (a set of bit numbers) of the node starting at bstart
duet_bmap_set(bmap, bstart, bgran, start, len, do_set) ==
  LET bofft == start - bstart
      bits == (bofft \div bgran)..((bofft \div bgran) + CeilDiv(len, bgran) - 1)
  IN IF RangeRejected(bofft, len, bstart, bgran)
     THEN [ret |-> -1, bmap |-> bmap]
     ELSE [ret |-> 0, bmap |-> IF do_set THEN bmap \cup bits ELSE bmap \ bits]

\* (*p & mask) == mask, or (~*p & mask) == mask, on word p of the bitmap
WordMatches(bmap, p, mask, do_set) ==
  \A b \in mask : (p * BITS_PER_LONG + b \in bmap) = do_set

RECURSIVE ChkWords(_, _, _, _, _, _, _)
\* the loop of duet_bmap_chk over whole words and its last partial word
ChkWords(bmap, p, blen, bits_to_chk, mask_to_chk, size, do_set) ==
  IF blen - bits_to_chk >= 0
  THEN IF ~WordMatches(bmap, p, mask_to_chk, do_set) THEN 0
       ELSE ChkWords(bmap, p + 1, blen - bits_to_chk, BITS_PER_LONG,
                     0..(BITS_PER_LONG - 1), size, do_set)
  ELSE IF blen # 0
       THEN IF WordMatches(bmap, p, mask_to_chk \cap BITMAP_LAST_WORD_MASK(size), do_set)
            THEN 1 ELSE 0
       ELSE 1

\* duet_bmap_chk: 1 when all bits of [start, start + len) are set (cleared),
\* 0 when not, -1 when the range is rejected
duet_bmap_chk(bmap, bstart, bgran, start, len, do_set) ==
  LET bofft64 == start - bstart
      bofft == bofft64 \div bgran
      blen == CeilDiv(len, bgran)
  IN IF RangeRejected(bofft64, len, bstart, bgran) THEN -1
     ELSE ChkWords(bmap, bofft \div BITS_PER_LONG, blen,
                   BITS_PER_LONG - (bofft % BITS_PER_LONG),
                   BITMAP_FIRST_WORD_MASK(bofft), bofft + blen, do_set)

RECURSIVE update_tree_loop(_, _, _, _, _, _)
\* the while (len) loop of __update_tree for a block task, node by node;
\* flags is a subset of {"DONE_SET", "DONE_RST", "CHECK"}; nomem: bnode_init
\* fails
update_tree_loop(tree, idx, len, node_offt, flags, nomem) ==
  IF len = 0 THEN [ret |-> IF "CHECK" \in flags THEN 1 ELSE 0, tree |-> tree]
  ELSE
    LET found == tree[node_offt].present
        node_len == Min(idx + len, node_offt + NodeSpan) - idx
        go_on(t) == update_tree_loop(t, idx + node_len, len - node_len, idx + node_len,
                                     flags, nomem)
    IN IF "DONE_SET" \in flags
       THEN IF ~found /\ "CHECK" \notin flags /\ nomem THEN [ret |-> -1, tree |-> tree]
            ELSE IF ~found /\ "CHECK" \in flags THEN [ret |-> 0, tree |-> tree]
            ELSE IF "CHECK" \notin flags
            THEN LET t1 == [tree EXCEPT ![node_offt].present = TRUE]
                     s  == duet_bmap_set(t1[node_offt].done, node_offt, BtRange,
                                         idx, node_len, TRUE)
                 IN IF s.ret # 0 THEN [ret |-> -1, tree |-> t1]
                    ELSE go_on([t1 EXCEPT ![node_offt].done = s.bmap])
            ELSE LET c == duet_bmap_chk(tree[node_offt].done, node_offt, BtRange,
                                        idx, node_len, TRUE)
                 IN IF c # 1 THEN [ret |-> c, tree |-> tree] ELSE go_on(tree)
       ELSE IF found /\ "DONE_RST" \in flags
       THEN IF "CHECK" \notin flags
            THEN LET s == duet_bmap_set(tree[node_offt].done, node_offt, BtRange,
                                        idx, node_len, FALSE)
                 IN IF s.ret # 0 THEN [ret |-> -1, tree |-> tree]
                    ELSE go_on([tree EXCEPT ![node_offt] =
                                  [present |-> s.bmap # {}, done |-> s.bmap]])
            ELSE LET c == duet_bmap_chk(tree[node_offt].done, node_offt, BtRange,
                                        idx, node_len, FALSE)
                 IN IF c # 1 THEN [ret |-> c, tree |-> tree] ELSE go_on(tree)
       ELSE go_on(tree)

\* __update_tree
update_tree(tree, idx, len, flags, nomem) ==
  update_tree_loop(tree, idx, len, idx - (idx % NodeSpan), flags, nomem)

\* the ranges a call is made with
BtRanges == {q \in BtAddrs \X (1..MaxBtLen) : q[1] + q[2] - 1 \in BtAddrs}

\* the granules marked in a tree, numbered from byte address 0
Marked(tree) ==
  UNION {{(n \div BtRange) + b : b \in tree[n].done} : n \in NodeStarts}
\* the granules overlapping [idx, idx + len)
Overlap(idx, len) == (idx \div BtRange)..((idx + len - 1) \div BtRange)

\* rec after a call op on the range q that returned r; want and wantret are
\* the marked granules and the return value a set of granules would give
BtCalled(op, q, nomem, r, want, wantret) ==
  [pc |-> "bmap", tree |-> r.tree, op |-> op, aligned |-> q[1] % BtRange = 0,
   nomem |-> nomem, ret |-> r.ret, want |-> want, wantret |-> wantret]

\* bittree_set_done (duet_mark)
bittree_set_done ==
  /\ rec.pc = "bmap"
  /\ \E q \in BtRanges, nomem \in BOOLEAN :
       rec' = BtCalled("mark", q, nomem,
                       update_tree(rec.tree, q[1], q[2], {"DONE_SET"}, nomem),
                       Marked(rec.tree) \cup Overlap(q[1], q[2]), 0)
  /\ UNCHANGED pipevars

\* bittree_unset_done (duet_unmark)
bittree_unset_done ==
  /\ rec.pc = "bmap"
  /\ \E q \in BtRanges :
       rec' = BtCalled("unmark", q, FALSE,
                       update_tree(rec.tree, q[1], q[2], {"DONE_RST"}, FALSE),
                       Marked(rec.tree) \ Overlap(q[1], q[2]), 0)
  /\ UNCHANGED pipevars

\* bittree_check of a block task (duet_check)
bittree_check ==
  /\ rec.pc = "bmap"
  /\ \E q \in BtRanges :
       rec' = BtCalled("check", q, FALSE,
                       update_tree(rec.tree, q[1], q[2], {"DONE_SET", "CHECK"}, FALSE),
                       Marked(rec.tree),
                       IF Overlap(q[1], q[2]) \subseteq Marked(rec.tree) THEN 1 ELSE 0)
  /\ UNCHANGED pipevars

\* bittree_init: an empty tree
BmapInit ==
  /\ InitPipe /\ deadline = 0
  /\ rec = [pc |-> "bmap", tree |-> EmptyTree, op |-> "none", aligned |-> TRUE,
            nomem |-> FALSE, ret |-> 0, want |-> {}, wantret |-> 0]

BmapNext == bittree_set_done \/ bittree_unset_done \/ bittree_check

SpecBmap == BmapInit /\ [][BmapNext]_vars

(***************************************************************************)
(* The synergistic filter: process_duet_events marks and unmarks the page  *)
(* of each event in the range bitmap, and scrub_stripe and scrub_extent    *)
(* ask the bitmap before they read.  The file system block, the page and   *)
(* the granule of the bitmap have the same size, and the device starts on  *)
(* a granule.  rec holds the bitmap, the pages whose last processed event  *)
(* was an ADD (added), and what the last step did.                         *)
(***************************************************************************)
\* blocks of the longest extent portion scrubbed in one step
MaxExtentBlocks == 3

\* the device addresses of the pages
DuetPages == {a \in BtAddrs : a % BtRange = 0}
\* the extent portions scrub_stripe meets: << start, length >>
DuetExtents ==
  {q \in DuetPages \X {k * BtRange : k \in 1..MaxExtentBlocks} : q[1] + q[2] - 1 \in BtAddrs}
\* the blocks of an extent portion
BlocksOf(q) == {a \in DuetPages : q[1] <= a /\ a < q[1] + q[2]}

\* duet_check(taskid, start, len)
duet_check(tree, start, len) ==
  update_tree(tree, start, len, {"DONE_SET", "CHECK"}, FALSE).ret

\* a filter that does not look at the mode of the scrub
duet_skip_any(r, start, len) == duet_check(r.tree, start, len) = 1

\* !is_dev_replace && (duet_check(sctx->taskid, dstart + physical, len) == 1)
duet_skip(r, start, len) == ~r.is_dev_replace /\ duet_check(r.tree, start, len) = 1

\* process_duet_events, one fetched item: an event that cannot be resolved
\* to a range of the scrubbed device is dropped; an ADDED page is marked, a
\* MODIFIED or ADDED_MODIFIED page is unmarked
process_duet_events ==
  /\ rec.pc = "duet"
  /\ \E page \in DuetPages, state \in {"ADDED", "MODIFIED", "ADDED_MODIFIED"},
        resolved \in BOOLEAN, nomem \in BOOLEAN :
       LET r == update_tree(rec.tree, page, BtRange,
                            IF state = "ADDED" THEN {"DONE_SET"} ELSE {"DONE_RST"},
                            nomem /\ state = "ADDED")
       IN rec' = IF ~resolved
                 THEN [rec EXCEPT !.op = "dropped", !.x = {}, !.read = {}, !.skipped = 0]
                 ELSE [rec EXCEPT
                         !.tree = r.tree,
                         !.added = IF state # "ADDED" THEN @ \ {page}
                                   ELSE IF nomem /\ r.ret = -1 THEN @
                                   ELSE @ \cup {page},
                         !.op = state, !.x = {page}, !.read = {}, !.skipped = 0]
  /\ UNCHANGED pipevars

\* scrub_stripe on one extent portion, with scrub_extent: outside replace
\* mode a portion whose whole range checks as marked is skipped and counted;
\* otherwise each block is checked again, and read unless it is marked
ScrubExtentPortion ==
  /\ rec.pc = "duet"
  /\ \E q \in DuetExtents :
       LET whole == duet_skip(rec, q[1], q[2])
           reads == {b \in BlocksOf(q) : ~duet_skip(rec, b, BtRange)}
       IN rec' = [rec EXCEPT !.op = "scrub", !.x = BlocksOf(q),
                             !.read = IF whole THEN {} ELSE reads,
                             !.skipped = IF whole THEN 1 ELSE 0]
  /\ UNCHANGED pipevars

DuetInit ==
  /\ InitPipe /\ deadline = 0
  /\ rec \in [pc : {"duet"}, is_dev_replace : BOOLEAN, tree : {EmptyTree}, added : {{}},
              op : {"none"}, x : {{}}, read : {{}}, skipped : {0}]

DuetNext == process_duet_events \/ ScrubExtentPortion

SpecDuet == DuetInit /\ [][DuetNext]_vars

(***************************************************************************)
(* The range arguments of btrfs_scrub_dev: scrub_enumerate_chunks walks    *)
(* the device extents of the device with the cursor key.offset and hands   *)
(* each selected device extent to scrub_chunk, which scrubs the whole      *)
(* device extent (scrub_stripe takes no range).  rec holds start and end,  *)
(* the cursor, the device extents handed to scrub_chunk, the extent reads  *)
(* submitted and the byte counters.                                        *)
(***************************************************************************)
\* device offsets around and inside the device extents
RangeOffsets ==
  UNION {{Chunks[c].dev_offset + k * PAGE_SIZE :
            k \in -1..(Chunks[c].length \div PAGE_SIZE + 1)} : c \in 1..Len(Chunks)}

\* the extent items of the chunk of device extent c
ExtentsOf(c) ==
  {i \in 1..Len(ExtentTree) :
     /\ ExtentTree[i].objectid >= Chunks[c].chunk_offset
     /\ ExtentTree[i].objectid < Chunks[c].chunk_offset + Chunks[c].length}

\* the bytes of the tree blocks (tree = TRUE) or of the data extents of S
BytesOf(S, tree) ==
  LET B[i \in 0..Len(ExtentTree)] ==
        IF i = 0 THEN 0
        ELSE B[i - 1] + (IF i \in S /\ ExtentTree[i].tree = tree
                         THEN ExtentTree[i].bytes ELSE 0)
  IN B[Len(ExtentTree)]

\* scrub_chunk with scrub_stripe on device extent c: every extent of the
\* chunk is counted and read
scrub_chunk(r, c) ==
  [r EXCEPT !.chunks = @ \cup {c},
            !.reads = @ \cup ExtentsOf(c),
            !.stat.tree_bytes_scrubbed = @ + BytesOf(ExtentsOf(c), TRUE),
            !.stat.data_bytes_scrubbed = @ + BytesOf(ExtentsOf(c), FALSE)]

\* one turn of the loop of scrub_enumerate_chunks: the first device extent
\* at or after the cursor; the loop ends when there is none or it starts at
\* or after end; a device extent ending at or before start is passed over;
\* any other goes to scrub_chunk
scrub_enumerate_chunks ==
  /\ rec.pc = "range"
  /\ LET S == {c \in 1..Len(Chunks) : Chunks[c].dev_offset >= rec.key_offset}
     IN IF S = {} THEN rec' = [rec EXCEPT !.pc = "ranged"]
        ELSE LET c == CHOOSE x \in S : \A y \in S : Chunks[x].dev_offset <= Chunks[y].dev_offset
                 found_key_offset == Chunks[c].dev_offset
                 length == Chunks[c].length
             IN rec' = IF found_key_offset >= rec.end THEN [rec EXCEPT !.pc = "ranged"]
                       ELSE IF found_key_offset + length <= rec.start
                       THEN [rec EXCEPT !.key_offset = found_key_offset + length]
                       ELSE [scrub_chunk(rec, c) EXCEPT
                               !.key_offset = found_key_offset + length]
  /\ UNCHANGED pipevars

RangeInit ==
  /\ InitPipe /\ deadline = 0
  /\ rec \in {r \in [pc : {"range"}, start : RangeOffsets, end : RangeOffsets,
                     key_offset : {0}, chunks : {{}}, reads : {{}},
                     stat : {[data_bytes_scrubbed |-> 0, tree_bytes_scrubbed |-> 0]}] :
                r.start <= r.end}

RangeNext == scrub_enumerate_chunks

SpecRange == RangeInit /\ [][RangeNext]_vars

(***************************************************************************)
(* scrub_stripe on its own: the stripe loop, the inner loop over the extent *)
(* items and scrub_extent, run without concurrency over a range of extent  *)
(* layouts, tree blocks crossing a stripe boundary included.  rec.reads is *)
(* the set of pages handed to scrub_pages, each with the item it is of.    *)
(***************************************************************************)
LayoutStripes == 2      \* stripes of the device extent
LayoutPages == (LayoutStripes + 1) * StripePages

\* extent items of the layouts: a tree block, or a data extent of 1 or 3 pages
LayoutItems ==
  {e \in {[objectid |-> p * PAGE_SIZE, bytes |-> n * PAGE_SIZE, tree |-> t, csum |-> FALSE] :
            p \in 0..(LayoutPages - 1), n \in 1..3, t \in BOOLEAN} :
     /\ e.tree <=> e.bytes = nodesize
     /\ e.objectid + e.bytes <= LayoutPages * PAGE_SIZE}

\* extent trees of one or two items, sorted by objectid, not overlapping
Layouts ==
  {<< e >> : e \in LayoutItems} \cup
  {q \in {<< a, b >> : a \in LayoutItems, b \in LayoutItems} :
     q[1].objectid + q[1].bytes <= q[2].objectid}

ENOMEM == 12

\* scrub_extent: the pages of [logical, logical + len) go to scrub_pages
ExtentReads(key, logical, len) ==
  {[objectid |-> key.objectid, tree |-> key.tree, page |-> logical + k * PAGE_SIZE] :
     k \in 0..((len \div PAGE_SIZE) - 1)}

\* scrub_extent cuts the portion into blocks of nodesize or sectorsize
ExtentBlocks(key, len) == CeilDiv(len, IF key.tree THEN nodesize ELSE sectorsize)

\* scrub_extent in which the scrub_pages call of block number fail cannot
\* allocate its block or one of its pages: the blocks before it are queued,
\* malloc_errors is counted and -ENOMEM returned to scrub_stripe, which goes
\* to out
ExtentNomem(r, key, logical, len, fail) ==
  LET blocksize == IF key.tree THEN nodesize ELSE sectorsize
  IN [r EXCEPT !.reads = @ \cup ExtentReads(key, logical, (fail - 1) * blocksize),
               !.malloc_errors = @ + 1, !.ret = -ENOMEM, !.pc = "out"]

\* scrub_stripe, top of the stripe loop and the extent search
scrub_stripe_loop ==
  /\ rec.pc = "loop"
  /\ rec' = IF ~(rec.logical < rec.logic_end) THEN [rec EXCEPT !.pc = "out"]
            ELSE [rec EXCEPT !.slot = SearchSlotIn(rec.tree, rec.logical), !.pc = "inner"]
  /\ UNCHANGED pipevars

\* scrub_stripe, the inner loop up to the next extent item of the stripe
scrub_stripe_inner ==
  /\ rec.pc = "inner"
  /\ LET r == ScanIn(rec.tree, rec.slot, rec.logical, rec.logic_end)
     IN rec' = IF r.kind = "extent" THEN [rec EXCEPT !.slot = r.slot, !.pc = "again"]
               ELSE [rec EXCEPT !.slot = r.slot, !.logical = rec.logical + stripe_len,
                                !.pc = IF r.stop THEN "out" ELSE "loop"]
  /\ UNCHANGED pipevars

\* scrub_stripe from again to next: trim, scrub_extent, and the step to the
\* next stripe of an extent that goes on behind the stripe
scrub_stripe_extent ==
  /\ rec.pc = "again"
  /\ LET key == rec.tree[rec.slot]
         t   == TrimToStripe(key, rec.logical)
         r1  == [rec EXCEPT !.reads = @ \cup ExtentReads(key, t[1], t[2])]
     IN \/ /\ rec.malloc_errors < MaxAllocFails
           /\ \E fail \in 1..ExtentBlocks(key, t[2]) :
                rec' = ExtentNomem(rec, key, t[1], t[2], fail)
        \/ rec' = IF t[1] + t[2] < key.objectid + key.bytes
               THEN LET r2 == [r1 EXCEPT !.logical = rec.logical + stripe_len]
                    IN IF r2.logical < key.objectid + key.bytes THEN r2
                       ELSE IF r2.logical >= r2.logic_end
                       THEN [r2 EXCEPT !.logical = r2.logical + stripe_len, !.pc = "out"]
                       ELSE [r2 EXCEPT !.slot = rec.slot + 1, !.pc = "inner"]
               ELSE [r1 EXCEPT !.slot = rec.slot + 1, !.pc = "inner"]
  /\ UNCHANGED pipevars

\* scrub_enumerate_chunks after scrub_chunk has returned: stop on an error of
\* the chunk or on a counted allocation failure, else go on with the next
\* device extent
scrub_chunk_done ==
  /\ rec.pc = "out"
  /\ rec' = IF rec.ret # 0 THEN [rec EXCEPT !.pc = "break"]
            ELSE IF rec.malloc_errors > 0 THEN [rec EXCEPT !.ret = -ENOMEM, !.pc = "break"]
            ELSE [rec EXCEPT !.pc = "next"]
  /\ UNCHANGED pipevars

StripeInit ==
  /\ InitPipe /\ deadline = 0
  /\ \E tree \in Layouts, base \in {0, stripe_len} :
       rec = [pc |-> "loop", tree |-> tree, base |-> base, logical |-> base,
              logic_end |-> base + LayoutStripes * stripe_len, slot |-> 1, reads |-> {},
              ret |-> 0, malloc_errors |-> 0]

StripeNext ==
  scrub_stripe_loop \/ scrub_stripe_inner \/ scrub_stripe_extent \/ scrub_chunk_done

SpecStripe == StripeInit /\ [][StripeNext]_vars

(***************************************************************************)
(* The synergistic scrubber's event loop: scrub_stripe calling             *)
(* process_duet_events at the top of every stripe iteration, while the     *)
(* hook workers queue new events.  rec.pending is the number of items in   *)
(* the task's item tree, rec.ret the budget left in the running call.      *)
(***************************************************************************)
EventBudget == 256
MaxPending == EventBudget + 2   \* items the task's tree can hold
EventStripes == 2               \* stripes of the device extent

\* scrub_stripe at the top of a stripe iteration with duet online: the loop
\* condition, then the call of process_duet_events
scrub_stripe_duet ==
  /\ rec.pc = "loop"
  /\ rec' = IF ~(rec.stripe < EventStripes) THEN [rec EXCEPT !.pc = "out"]
            ELSE [rec EXCEPT !.pc = "events", !.ret = EventBudget, !.stop = FALSE]
  /\ UNCHANGED pipevars

\* process_duet_events, one pass of "while (ret)": duet_fetch of one item
\* (failed: return 0; no item: return 0), its resolution, which may have to
\* read the inode or the extent map from disk (stop), then ret-- and the
\* break on stop; after the loop "return (!ret || stop)"
duet_event_pass ==
  /\ rec.pc = "events"
  /\ \E failed \in BOOLEAN, io \in BOOLEAN :
       rec' = IF failed \/ rec.pending = 0
              THEN [rec EXCEPT !.pc = "returned", !.result = 0]
              ELSE LET r == [rec EXCEPT !.pending = @ - 1, !.ret = @ - 1, !.stop = io]
                   IN IF r.ret # 0 /\ ~r.stop THEN r
                      ELSE [r EXCEPT !.pc = "returned",
                                     !.result = IF r.ret = 0 \/ r.stop THEN 1 ELSE 0]
  /\ UNCHANGED pipevars

\* scrub_stripe after process_duet_events: "continue" on a non-zero result,
\* else the extent lookup and the scrub of the stripe
scrub_stripe_after_events ==
  /\ rec.pc = "returned"
  /\ rec' = IF rec.result # 0 THEN [rec EXCEPT !.pc = "loop"]
            ELSE [rec EXCEPT !.pc = "search"]
  /\ UNCHANGED pipevars

\* scrub_stripe from btrfs_search_slot to the end of the stripe iteration
scrub_stripe_scan ==
  /\ rec.pc = "search"
  /\ rec' = [rec EXCEPT !.pc = "loop", !.stripe = @ + 1]
  /\ UNCHANGED pipevars

\* a hook worker queues one more item for the task
handle_event ==
  /\ rec.pc \in {"loop", "events", "returned", "search"}
  /\ rec.pending < MaxPending
  /\ rec' = [rec EXCEPT !.pending = @ + 1]
  /\ UNCHANGED pipevars

EventsInit ==
  /\ InitPipe /\ deadline = 0
  /\ \E n \in 0..MaxPending :
       rec = [pc |-> "loop", stripe |-> 0, pending |-> n, ret |-> 0, stop |-> FALSE,
              result |-> 0]

EventsNext ==
  \/ scrub_stripe_duet \/ duet_event_pass \/ scrub_stripe_after_events
  \/ scrub_stripe_scan \/ handle_event

SpecEvents == EventsInit /\ [][EventsNext]_vars

(***************************************************************************)
(* btrfs_scrub_dev called by several tasks for one device: the lookup of   *)
(* the device under device_list_mutex, the tests and the attachment of the *)
(* context under scrub_lock, the scrub, and the detachment under           *)
(* scrub_lock.  rec holds the flags of the device, dev->scrub_device (the  *)
(* caller whose context is attached, 0 for NULL), scrubs_running, the      *)
(* holder of device_list_mutex and the position of every caller.  No code  *)
(* of scrub.c writes the flags of the device.                              *)
(***************************************************************************)
ENODEV == 19
EINPROGRESS == 115

\* tasks calling btrfs_scrub_dev
ScrubCallers == 3
\* calls each task makes
MaxScrubCalls == 2

Callers == 1..ScrubCallers

\* a test that does not look at dev->scrub_device
in_progress_replace(r, is_dev_replace) == ~is_dev_replace /\ r.replace_ongoing

\* dev->scrub_device || (!is_dev_replace && btrfs_dev_replace_is_ongoing())
in_progress(r, is_dev_replace) ==
  r.scrub_device # 0 \/ (~is_dev_replace /\ r.replace_ongoing)

\* the context of caller c is attached and not yet detached
Attached(c) == rec.call[c].pc \in {"supers", "scrub", "detach"}

\* entry: mutex_lock(device_list_mutex), btrfs_find_device
btrfs_scrub_dev_find(c) ==
  /\ rec.pc = "attach" /\ rec.call[c].pc = "call" /\ rec.dlm = 0
  /\ \E is_dev_replace \in BOOLEAN :
       rec' = IF rec.missing /\ ~is_dev_replace
              THEN [rec EXCEPT !.call[c].pc = "returned", !.call[c].ret = -ENODEV,
                               !.call[c].replace = is_dev_replace]
              ELSE [rec EXCEPT !.dlm = c, !.call[c].pc = "lock",
                               !.call[c].replace = is_dev_replace]
  /\ UNCHANGED pipevars

\* the section under scrub_lock: the tests, scrub_workers_get,
\* scrub_setup_ctx, dev->scrub_device = sctx, scrubs_running++
btrfs_scrub_dev_attach(c) ==
  /\ rec.pc = "attach" /\ rec.call[c].pc = "lock"
  /\ \E workers_fail \in BOOLEAN, ctx_fail \in BOOLEAN :
       rec' = IF ~rec.in_fs_metadata \/ rec.is_tgtdev
              THEN [rec EXCEPT !.dlm = 0, !.call[c].pc = "returned",
                               !.call[c].ret = -EIO]
              ELSE IF in_progress(rec, rec.call[c].replace)
              THEN [rec EXCEPT !.dlm = 0, !.call[c].pc = "returned",
                               !.call[c].ret = -EINPROGRESS]
              ELSE IF workers_fail \/ ctx_fail
              THEN [rec EXCEPT !.dlm = 0, !.call[c].pc = "returned",
                               !.call[c].ret = -ENOMEM]
              ELSE [rec EXCEPT !.scrub_device = c, !.scrubs_running = @ + 1,
                               !.call[c].pc = "supers", !.call[c].ret = 0]
  /\ UNCHANGED pipevars

\* scrub_supers outside replace mode, mutex_unlock(device_list_mutex)
btrfs_scrub_dev_supers(c) ==
  /\ rec.pc = "attach" /\ rec.call[c].pc = "supers"
  /\ \E failed \in BOOLEAN :
       rec' = [rec EXCEPT !.dlm = 0, !.call[c].pc = "scrub",
                          !.call[c].ret = IF failed /\ ~rec.call[c].replace
                                          THEN -ENOMEM ELSE 0]
  /\ UNCHANGED pipevars

\* scrub_enumerate_chunks when scrub_supers returned 0, the waits for the
\* batches, scrubs_running--
btrfs_scrub_dev_scrub(c) ==
  /\ rec.pc = "attach" /\ rec.call[c].pc = "scrub"
  /\ \E failed \in BOOLEAN :
       rec' = [rec EXCEPT !.scrubs_running = @ - 1, !.call[c].pc = "detach",
                          !.call[c].ret = IF @ = 0 /\ failed THEN -EIO ELSE @]
  /\ UNCHANGED pipevars

\* under scrub_lock: dev->scrub_device = NULL, scrub_workers_put
btrfs_scrub_dev_detach(c) ==
  /\ rec.pc = "attach" /\ rec.call[c].pc = "detach"
  /\ rec' = [rec EXCEPT !.scrub_device = 0, !.call[c].pc = "free"]
  /\ UNCHANGED pipevars

\* scrub_free_ctx, return ret
btrfs_scrub_dev_return(c) ==
  /\ rec.pc = "attach" /\ rec.call[c].pc = "free"
  /\ rec' = [rec EXCEPT !.call[c].pc = "returned"]
  /\ UNCHANGED pipevars

\* the task calls btrfs_scrub_dev for the device
btrfs_scrub_dev_call(c) ==
  /\ rec.pc = "attach" /\ rec.call[c].pc \in {"idle", "returned"}
  /\ rec.call[c].calls < MaxScrubCalls
  /\ rec' = [rec EXCEPT !.call[c].pc = "call", !.call[c].calls = @ + 1,
                        !.call[c].ret = 0]
  /\ UNCHANGED pipevars

AttachInit ==
  /\ InitPipe /\ deadline = 0
  /\ \E missing \in BOOLEAN, in_fs \in BOOLEAN, tgt \in BOOLEAN, ongoing \in BOOLEAN :
       rec = [pc |-> "attach", missing |-> missing, in_fs_metadata |-> in_fs,
              is_tgtdev |-> tgt, replace_ongoing |-> ongoing, scrub_device |-> 0,
              scrubs_running |-> 0, dlm |-> 0,
              call |-> [c \in Callers |-> [pc |-> "idle", ret |-> 0, replace |-> FALSE,
                                           calls |-> 0]]]

AttachNext ==
  \E c \in Callers :
    \/ btrfs_scrub_dev_call(c) \/ btrfs_scrub_dev_find(c) \/ btrfs_scrub_dev_attach(c)
    \/ btrfs_scrub_dev_supers(c) \/ btrfs_scrub_dev_scrub(c)
    \/ btrfs_scrub_dev_detach(c) \/ btrfs_scrub_dev_return(c)

SpecAttach == AttachInit /\ [][AttachNext]_vars

(***************************************************************************)
(* The two batch counters at the grain of their atomic operations.  The    *)
(* walker submits read batches one at a time (scrub_submit), a holder of   *)
(* wr_lock submits write batches one at a time (scrub_wr_submit); each     *)
(* submission is atomic_inc(bios_in_flight) followed by                    *)
(* atomic_inc(bios_allocated), each completion atomic_dec(bios_in_flight)  *)
(* followed, at once or after the pacing delay, by                         *)
(* atomic_dec(bios_allocated).  rec holds the counters and the position of *)
(* every batch.                                                            *)
(***************************************************************************)
\* read batches and write batches followed
CountReads == 3
CountWrites == 2

CountBatches == 1..(CountReads + CountWrites)
IsWrite(k) == k > CountReads

\* scrub_pending_bio_inc in scrub_submit (2556) and scrub_wr_submit (2076):
\* one submitter per kind at a time
scrub_pending_bio_inc(k) ==
  /\ rec.pc = "count" /\ rec.b[k] = "idle"
  /\ \A j \in CountBatches : IsWrite(j) = IsWrite(k) => rec.b[j] # "submitting"
  /\ rec' = [rec EXCEPT !.bios_in_flight = @ + 1, !.b[k] = "submitting"]
  /\ UNCHANGED pipevars

\* scrub_pending_bio_alloc_inc in scrub_submit (2558) and scrub_wr_submit
\* (2078), followed by the submission of the bio
scrub_pending_bio_alloc_inc(k) ==
  /\ rec.pc = "count" /\ rec.b[k] = "submitting"
  /\ rec' = [rec EXCEPT !.bios_allocated = @ + 1, !.b[k] = "io"]
  /\ UNCHANGED pipevars

\* the completion drops bios_in_flight: scrub_bio_end_io_worker with a
\* deadline (2822), scrub_bio_end_io_wrapup_worker without (3011),
\* scrub_wr_bio_end_io_worker (2124)
scrub_pending_bio_dec(k) ==
  /\ rec.pc = "count" /\ rec.b[k] = "io"
  /\ rec' = [rec EXCEPT !.bios_in_flight = @ - 1, !.b[k] = "withheld"]
  /\ UNCHANGED pipevars

\* scrub_pending_bio_alloc_dec at the end of scrub_bio_end_io_wrapup_worker
\* (3015) and of scrub_wr_bio_end_io_worker (2126)
scrub_pending_bio_alloc_dec(k) ==
  /\ rec.pc = "count" /\ rec.b[k] = "withheld"
  /\ rec' = [rec EXCEPT !.bios_allocated = @ - 1, !.b[k] = "idle"]
  /\ UNCHANGED pipevars

CountInit ==
  /\ InitPipe /\ deadline = 0
  /\ rec = [pc |-> "count", bios_in_flight |-> 0, bios_allocated |-> 0,
            b |-> [k \in CountBatches |-> "idle"]]

CountNext ==
  \E k \in CountBatches :
    \/ scrub_pending_bio_inc(k) \/ scrub_pending_bio_alloc_inc(k)
    \/ scrub_pending_bio_dec(k) \/ scrub_pending_bio_alloc_dec(k)

SpecCount == CountInit /\ [][CountNext]_vars

(***************************************************************************)
(* The size of the batch pool over a long scrub: the walker takes free     *)
(* batches and, when none is free while a pause is requested, grows the    *)
(* pool by one slot; a completing batch may evaluate the rate controller,  *)
(* which grows the pool or sets pending_removals, and is then pushed back  *)
(* on the free-list or removed.  rec holds bios_per_sctx,                  *)
(* pending_removals, the number of batches off the free-list and the pause *)
(* request.                                                                *)
(***************************************************************************)
\* slots the pool of this machine may reach
PoolCap == MAX_BIOS_PER_SCTX + 2

\* the pool sizes scrub_adjust_rate returns
PoolRateOutputs ==
  {scrub_adjust_rate(r.used_bytes, r.deadline, r.elapsed, r.total_scrubbed)[1] :
     r \in RateInputs}

\* scrub_add_page_to_rd_bio: the walker takes the head of the free-list
pool_grab ==
  /\ rec.pc = "pool" /\ rec.busy < rec.bios_per_sctx
  /\ rec' = [rec EXCEPT !.busy = @ + 1]
  /\ UNCHANGED pipevars

\* scrub_add_page_to_rd_bio: the free-list is empty and a pause is requested:
\* scrub_realloc_bios_array(sctx, sctx->bios_per_sctx + 1)
pool_grow ==
  /\ rec.pc = "pool" /\ rec.busy = rec.bios_per_sctx /\ rec.pause_req
  /\ rec.bios_per_sctx < PoolCap
  /\ rec' = [rec EXCEPT !.bios_per_sctx = @ + 1]
  /\ UNCHANGED pipevars

\* scrub_bio_end_io_wrapup_worker with scrub_remove_bio: the evaluation of
\* the controller when the scrub is off its goal, then the batch goes back
\* on the free-list or, while pending_removals is not 0, leaves the pool
pool_wrapup ==
  /\ rec.pc = "pool" /\ rec.busy > 0
  /\ \E adjust \in BOOLEAN, out \in PoolRateOutputs :
       LET size == IF adjust /\ out > rec.bios_per_sctx THEN out ELSE rec.bios_per_sctx
           pr == IF adjust /\ out < rec.bios_per_sctx
                 THEN rec.bios_per_sctx - out ELSE rec.pending_removals
       IN rec' = IF pr = 0
                 THEN [rec EXCEPT !.bios_per_sctx = size, !.pending_removals = pr,
                                  !.busy = @ - 1]
                 ELSE [rec EXCEPT !.bios_per_sctx = size - 1,
                                  !.pending_removals = pr - 1, !.busy = @ - 1]
  /\ UNCHANGED pipevars

\* btrfs_scrub_pause and btrfs_scrub_continue: scrub_pause_req
pool_pause ==
  /\ rec.pc = "pool"
  /\ rec' = [rec EXCEPT !.pause_req = ~@]
  /\ UNCHANGED pipevars

PoolInit ==
  /\ InitPipe /\ deadline = 0
  /\ rec = [pc |-> "pool", bios_per_sctx |-> DEFAULT_BIOS, pending_removals |-> 0,
            busy |-> 0, pause_req |-> FALSE]

PoolNext == pool_grab \/ pool_grow \/ pool_wrapup \/ pool_pause

SpecPool == PoolInit /\ [][PoolNext]_vars

(***************************************************************************)
(* The item trees of the duet tasks (hook.c): the hook workers insert the  *)
(* events into the tree of every interested task under the task's          *)
(* itm_lock, and duet_fetch takes items off the front of one tree under    *)
(* the same lock.  itmtree_insert is not part of hook.c: an event for a    *)
(* page without a node makes a node (or fails), an event for a page with a *)
(* node updates that node.  rec holds the tree of every task as a set of   *)
(* nodes [key, id] (id: the event that made the node), the ids handed out  *)
(* by earlier fetches, and the arguments and results of the last           *)
(* duet_fetch.                                                             *)
(***************************************************************************)
\* registered tasks (task ids 1..FetchTasks; FetchTasks + 1 is not registered)
FetchTasks == 2
\* pages events are about, events handled, largest itreq
FetchKeys == 3
MaxEvents == 3
MaxItreq == 3

\* rb_first: the node with the smallest key
FirstNode(tree) == CHOOSE n \in tree : \A m \in tree : n.key <= m.key

RECURSIVE FetchLoop(_, _, _)
\* the loop of duet_fetch from 'again' to 'done': << itmtree, items >>
FetchLoop(tree, itreq, items) ==
  IF tree = {} THEN << tree, items >>
  ELSE LET tnode == FirstNode(tree)
           got == Append(items, tnode.id)
       IN IF Len(got) < itreq THEN FetchLoop(tree \ {tnode}, itreq, got)
          ELSE << tree \ {tnode}, got >>

\* duet_fetch(taskid, itreq, items, &itret)
duet_fetch ==
  /\ rec.pc = "fetch"
  /\ \E taskid \in 1..(FetchTasks + 1), itreq \in 0..MaxItreq :
       rec' = IF taskid \notin DOMAIN rec.itmtree
              THEN [rec EXCEPT !.last = [tick |-> ~rec.last.tick, taskid |-> taskid,
                                         itreq |-> itreq, pending |-> 0, items |-> << >>,
                                         ret |-> 1, twice |-> FALSE]]
              ELSE LET r == FetchLoop(rec.itmtree[taskid], itreq, << >>)
                       ids == {r[2][i] : i \in 1..Len(r[2])}
                   IN [rec EXCEPT
                         !.itmtree[taskid] = r[1],
                         !.fetched[taskid] = @ \cup ids,
                         !.last = [tick |-> ~rec.last.tick, taskid |-> taskid,
                                   itreq |-> itreq,
                                   pending |-> Cardinality(rec.itmtree[taskid]),
                                   items |-> r[2], ret |-> 0,
                                   twice |-> ids \cap rec.fetched[taskid] # {}]]
  /\ UNCHANGED pipevars

\* __handle_event: the event is inserted into the tree of every task whose
\* file system it belongs to (task 1 watches one file system, the others
\* every file system)
hook_handle_event ==
  /\ rec.pc = "fetch" /\ rec.events < MaxEvents
  /\ \E key \in 1..FetchKeys, same_sb \in BOOLEAN, failed \in SUBSET (1..FetchTasks) :
       rec' = [rec EXCEPT
                 !.events = @ + 1,
                 !.itmtree = [t \in DOMAIN @ |->
                                IF (t = 1 /\ ~same_sb) \/ t \in failed
                                   \/ \E n \in @[t] : n.key = key
                                THEN @[t]
                                ELSE @[t] \cup {[key |-> key, id |-> rec.events + 1]}]]
  /\ UNCHANGED pipevars

FetchInit ==
  /\ InitPipe /\ deadline = 0
  /\ rec = [pc |-> "fetch", events |-> 0,
            itmtree |-> [t \in 1..FetchTasks |-> {}],
            fetched |-> [t \in 1..FetchTasks |-> {}],
            last |-> [tick |-> FALSE, taskid |-> 0, itreq |-> 0, pending |-> 0,
                      items |-> << >>, ret |-> 0, twice |-> FALSE]]

FetchNext == duet_fetch \/ hook_handle_event

SpecFetch == FetchInit /\ [][FetchNext]_vars

(***************************************************************************)
(* Properties of the read pipeline.                                        *)
(***************************************************************************)
\* the walker between its increment and its decrement of scrubs_paused
WalkerPausedPcs == {"reada", "paused", "pause_free", "chunk_workers", "chunk_paused"}
\* the walker between its increment and its decrement of scrubs_running
WalkerRunningPcs == {"supers", "supers_wait", "enum", "stripe_wait", "reada", "loop",
                     "pause_properly", "pause_wait", "paused", "pause_free", "inner",
                     "again", "extent", "add", "pages_end", "out", "chunk_wait",
                     "chunk_workers", "chunk_paused", "tail", "tail2"}

\* the step hands no batch to the block layer
NoSubmit == \A s \in DOMAIN sbio' :
              sbio'[s].st = "io" => s \in DOMAIN sbio /\ sbio[s].st = "io"

\* C1: while the walker is counted as paused its context has no batch in
\* flight and it submits none; and at the step at which btrfs_scrub_pause
\* returns, a running walker is counted as paused with nothing in flight.
C1_PausedIsDrained ==
  /\ [](w.pc \in WalkerPausedPcs => bios_in_flight = 0)
  /\ [][w.pc \in WalkerPausedPcs => NoSubmit /\ bios_in_flight' = 0]_vars
  /\ [][PauseAck => (w.pc \in WalkerRunningPcs =>
                       w.pc \in WalkerPausedPcs /\ bios_in_flight = 0)]_vars

\* the pause is held over a parked walker of an adaptive run whose batches
\* have all been read but are not all back in the pool
C1_Witness ==
  /\ pauser = "held" /\ w.pc = "paused"
  /\ bios_in_flight = 0 /\ bios_allocated > 0

\* C2: scrub_block_complete runs exactly once for every block: no run is a
\* second run on its block, and a block is freed after exactly one run.
C2_CompleteExactlyOnce ==
  /\ \A e \in obs.clog : e.first
  /\ obs.flog \subseteq {1}

\* C3: whenever scrub_block_complete starts, every page of the block has been
\* added to a batch, outstanding_pages is 0 and no page of the block sits in
\* the current or in an in-flight batch.
C3_CompleteAfterAllPages ==
  \A e \in obs.clog : e.all_added /\ e.outstanding = 0 /\ ~e.busy

\* C4: when scrub_free_ctx runs, bios_in_flight, bios_allocated and
\* workers_pending are 0, no batch is being read, withheld by a pacing timer
\* or in its wrapup, and no deferred worker is left.
C4_FreeOnlyWhenIdle ==
  w.pc \in {"free", "returned"} =>
    /\ bios_in_flight = 0 /\ bios_allocated = 0 /\ workers_pending = 0
    /\ \A s \in DOMAIN sbio : sbio[s].st = "pool"
    /\ fixups = 0 /\ rm.st = "idle"

\* the context of an adaptive run that had a failed read and a pool resize
\* is about to be freed
C4_Witness ==
  /\ w.pc = "free" /\ deadline # 0
  /\ obs.ioerrs > 0 /\ bios_per_sctx # Len(SetupBios(scrub_adjust_rate(UsedBytes, deadline, 0, 0)[1]))

\* C5: the cancelling caller unblocks: once btrfs_scrub_dev has returned and
\* no pause is requested, a caller of btrfs_scrub_cancel_dev is not left
\* sleeping on scrub_pause_wait (it sees the detached device and returns).
C5_CancelUnblocks ==
  (w.pc = "returned" /\ canceller = "wait_dev" /\ scrub_pause_req = 0 /\ pauser = "idle")
     => "canceller" \notin asleep

\* C7: every batch handed to the block layer holds between 1 and
\* pages_per_rd_bio pages, page k at physical + k*PAGE_SIZE and
\* logical + k*PAGE_SIZE on the batch's device.
C7_SubmittedContiguous ==
  \A s \in DOMAIN sbio :
    sbio[s].st = "io" =>
      /\ sbio[s].page_count >= 1 /\ sbio[s].page_count <= SCRUB_PAGES_PER_RD_BIO
      /\ Len(sbio[s].pagev) = sbio[s].page_count
      /\ \A k \in 1..Len(sbio[s].pagev) :
           /\ sbio[s].pagev[k].physical = sbio[s].physical + (k - 1) * PAGE_SIZE
           /\ sbio[s].pagev[k].logical = sbio[s].logical + (k - 1) * PAGE_SIZE
           /\ sbio[s].pagev[k].dev = sbio[s].dev

\* a full batch in flight holds pages of more than one block
C7_Witness ==
  \E s \in DOMAIN sbio :
    /\ sbio[s].st = "io" /\ sbio[s].page_count = SCRUB_PAGES_PER_RD_BIO
    /\ sbio[s].pagev[1].blk # sbio[s].pagev[SCRUB_PAGES_PER_RD_BIO].blk

\* the free-list is acyclic, ends in -1 and names only slots of the pool
FreeListWellFormed ==
  LET fl == FreeList
  IN /\ Len(fl) <= bios_per_sctx
     /\ \A a, b \in 1..Len(fl) : a # b => fl[a] # fl[b]
     /\ IF fl = << >> THEN first_free = -1
        ELSE sbio[Slot(fl[Len(fl)])].next_free = -1

\* the number of places the batch struct t is in
PlacesOf(t) ==
  LET fl == FreeList
  IN Cardinality({k \in 1..Len(fl) : Slot(fl[k]) = t})
     + (IF curr # -1 /\ Slot(curr) = t THEN 1 ELSE 0)
     + (IF sbio[t].st # "pool" THEN 1 ELSE 0)

\* the number of places slot i is in
PlacesOfSlot(i) ==
  LET fl == FreeList
  IN Cardinality({k \in 1..Len(fl) : fl[k] = i})
     + (IF curr = i THEN 1 ELSE 0)
     + (IF sbio[Slot(i)].st # "pool" THEN 1 ELSE 0)

FreeBatches == [k \in 1..Len(FreeList) |-> Slot(FreeList[k])]
CurrBatch == IF curr >= 0 /\ curr < bios_per_sctx THEN Slot(curr) ELSE 0

\* the step is a step of scrub_remove_bio that removes: a batch is freed, or
\* the links or the current-slot index are redirected
Removing == DOMAIN sbio \ DOMAIN sbio' # {} \/ rm' # rm

\* C24: outside scrub_remove_bio every slot below the pool size holds a live
\* batch whose index field is the slot's index, and no batch occupies two
\* slots; every step of a removal leaves the free-list and the current-slot
\* index designating the same batches; and a batch that is freed is the
\* completing one: it is not on the free-list, not current and not in flight.
C24_ShrinkKeepsPoolDense ==
  /\ [](rm.st = "idle" =>
          \A i \in 0..(bios_per_sctx - 1) :
            /\ Slot(i) \in DOMAIN sbio /\ sbio[Slot(i)].index = i
            /\ \A j \in 0..(bios_per_sctx - 1) : j # i => Slot(j) # Slot(i))
  /\ [][Removing =>
          /\ FreeBatches' = FreeBatches /\ CurrBatch' = CurrBatch
          /\ \A t \in DOMAIN sbio \ DOMAIN sbio' :
               /\ sbio[t].st = "rmwait" /\ t # CurrBatch
               /\ \A k \in 1..Len(FreeBatches) : FreeBatches[k] # t]_vars

\* scrub_remove_bio is about to redirect the current-slot index: the walker's
\* current batch is the last slot, which has been moved into the hole
C24_Witness ==
  /\ rm.st = "curr" /\ curr = bios_per_sctx - 1
  /\ Slot(curr) = Slot(rm.idx)

\* the step arms no pacing timer
NoTimerArmed ==
  \A s \in DOMAIN sbio' :
    sbio'[s].st = "timer" => s \in DOMAIN sbio /\ sbio[s].st = "timer"

\* C25: while a pause request is pending no completion arms a pacing timer;
\* and once btrfs_scrub_pause has returned, with the request still pending,
\* no batch is still withheld from the free-list by a pacing timer armed
\* before the request.
C25_PauseCancelsPacing ==
  /\ [][scrub_pause_req > 0 => NoTimerArmed]_vars
  /\ [](pauser = "held" => \A s \in DOMAIN sbio : sbio[s].st # "timer")

\* the walker's current index designates a live batch that is not on the
\* free-list
CurrDesignatesHeldBatch ==
  curr # -1 =>
    /\ curr >= 0 /\ curr < bios_per_sctx
    /\ CurrBatch \in DOMAIN sbio
    /\ sbio[CurrBatch].st = "pool"
    /\ \A k \in 1..Len(FreeBatches) : FreeBatches[k] # CurrBatch

\* C30: in an adaptive run every write of curr (the grab from the free-list,
\* the reset in scrub_submit, the redirection in scrub_remove_bio) is made
\* with curr_lock held; the current index always designates a live batch
\* off the free-list, and no step of a removal changes the batch it
\* designates.
C30_CurrUnderCurrLock ==
  /\ [](Adaptive => obs.currw \subseteq {"curr_lock"})
  /\ []CurrDesignatesHeldBatch
  /\ [][Removing => CurrBatch' = CurrBatch]_vars

\* C18: with a deadline of 0 the pool has its default size and the delay is
\* 0 for the whole run: the pool is never grown or shrunk, no completion
\* reaches the adaptive wrapup in which the rate controller runs, and no
\* completion arms a pacing timer.
C18_NoDeadlineFixedPool ==
  deadline = 0 =>
    /\ bios_per_sctx = DEFAULT_BIOS /\ delay = 0
    /\ pending_removals = 0 /\ rm.st = "idle"
    /\ \A s \in DOMAIN sbio : sbio[s].st \notin {"timer", "wrapq", "rmwait"}

\* a run without deadline that has scrubbed every stripe and seen all its
\* batches complete
C18_Witness ==
  /\ deadline = 0 /\ w.pc = "returned" /\ w.ret = 0
  /\ stat.data_bytes_scrubbed + stat.tree_bytes_scrubbed > 0
  /\ bios_allocated = 0 /\ bios_per_sctx = DEFAULT_BIOS /\ delay = 0

\* the bytes of the extent items that lie in the scanned device extents
AllocatedBytes ==
  LET B[i \in 0..Len(ExtentTree)] == IF i = 0 THEN 0 ELSE B[i - 1] + ExtentTree[i].bytes
  IN B[Len(ExtentTree)]

\* C21: over a whole run, pauses included, every allocated extent byte is
\* added to data_bytes_scrubbed/tree_bytes_scrubbed at most once: the sum of
\* the two counters never exceeds the allocated bytes of the scanned device
\* extents.
C21_BytesCountedOnce ==
  stat.data_bytes_scrubbed + stat.tree_bytes_scrubbed <= AllocatedBytes

\* the walker inside the pause protocol of scrub_stripe
PauseProtocolPcs == {"pause_properly", "pause_wait", "paused", "pause_free"}

\* the logical start of every stripe of the scanned device extents
StripeStarts ==
  UNION {{Chunks[c].chunk_offset + k * stripe_len :
            k \in 0..((Chunks[c].length \div stripe_len) - 1)} : c \in 1..Len(Chunks)}

\* the starts of the extent portions a run without pause hands to scrub_extent
PortionStarts ==
  UNION {{IF ExtentTree[i].objectid < s THEN s ELSE ExtentTree[i].objectid :
            s \in {t \in StripeStarts :
                     /\ ExtentTree[i].objectid < t + stripe_len
                     /\ ExtentTree[i].objectid + ExtentTree[i].bytes > t
                     /\ ~(ExtentTree[i].tree /\ ExtentTree[i].objectid < t)}} :
         i \in 1..Len(ExtentTree)}

\* C26: a pause leaves the walker's cursor unchanged: entering the pause (at
\* the top of a stripe iteration or in the middle of an extent) and every
\* step of the pause keep logical and physical, and the first extent lookup
\* after the pause searches from that logical offset; a run that ends
\* without error has handed every extent portion to scrub_extent, pauses or
\* not.
C26_PauseKeepsCursor ==
  /\ [][(w.pc \in PauseProtocolPcs \/ w'.pc \in PauseProtocolPcs) =>
          /\ w'.logical = w.logical /\ w'.physical = w.physical
          /\ w'.pc \notin PauseProtocolPcs =>
               w'.pc = "inner" /\ w'.slot = SearchSlot(w.logical)]_vars
  /\ []((w.pc = "returned" /\ w.ret = 0) => PortionStarts \subseteq obs.scrubbed)

\* the walker has just resumed from a pause taken in the middle of a stripe:
\* its lookup landed on an extent whose portion was scrubbed before the pause
C26_Witness ==
  /\ w.pc = "inner" /\ obs.pauses > 0 /\ scrub_pause_req = 0
  /\ w.slot = SearchSlot(w.logical)
  /\ ExtentTree[w.slot].objectid >= w.logical
  /\ ExtentTree[w.slot].objectid \in obs.scrubbed

\* a tree block that is not contained in one stripe
Straddles(key) ==
  key.tree /\ key.objectid \div stripe_len # (key.objectid + key.bytes - 1) \div stripe_len

\* C27: no page of a tree block that crosses a stripe boundary (it starts
\* before the current stripe or extends past its end) is ever handed to
\* scrub_pages.
C27_StraddlingTreeBlockSkipped ==
  \A e \in rec.reads :
    ~\E i \in 1..Len(rec.tree) : rec.tree[i].objectid = e.objectid /\ Straddles(rec.tree[i])

\* C28: an allocation failure while a block is built is counted in
\* malloc_errors and abandons only that block: the scan of the device extent
\* is not left with an error and the enumeration of the device extents is
\* not broken off.
C28_AllocFailureContinues ==
  rec.malloc_errors > 0 => rec.ret = 0 /\ rec.pc # "break"

\* C31: one call of process_duet_events consumes at most 256 events and
\* returns after the first event whose resolution needed disk I/O; after a
\* call that yielded (result 1) the walker proceeds to the extent lookup of
\* the stripe instead of calling process_duet_events again.
C31_EventsBoundedAndYielding ==
  /\ [](rec.pc \in {"events", "returned"} =>
          /\ rec.ret >= 0 /\ rec.ret <= EventBudget
          /\ rec.stop => rec.pc = "returned")
  /\ [][(rec.pc = "returned" /\ rec.result = 1) => rec'.pc \in {"returned", "search"}]_vars

\* the page-entries of block b that sit in a batch (current or submitted)
PagesInBatches(b) ==
  {q \in UNION {{<< t, k >> : k \in 1..Len(sbio[t].pagev)} : t \in DOMAIN sbio} :
     sbio[q[1]].pagev[q[2]].blk = b}

\* scrub_pages is between the allocation of its block and its final
\* scrub_block_put
WalkerHolds(b) == w.pc \in {"add", "pages_end"} /\ w.blk = b

\* C32: a block is freed only when its reference count reaches zero: every
\* live block's count is one per page-entry sitting in a batch plus one for
\* the walker while it is still adding the block's pages, so the block of
\* every page in the current or an in-flight batch, and the block the walker
\* is adding, is not freed, and a completion worker finds every block of
\* its batch alive.
C32_FreedAtZeroRefs ==
  /\ \A b \in DOMAIN blocks :
       /\ blocks[b].ref_count >= 1
       /\ blocks[b].ref_count =
            Cardinality(PagesInBatches(b)) + (IF WalkerHolds(b) THEN 1 ELSE 0)
  /\ \A t \in DOMAIN sbio : \A k \in 1..Len(sbio[t].pagev) :
       sbio[t].pagev[k].blk \in DOMAIN blocks
  /\ w.pc \in {"add", "pages_end"} => w.blk \in DOMAIN blocks

\* the walker is still adding the pages of a block one of whose pages is
\* already in flight, and some block has been freed before
C32_Witness ==
  /\ w.pc = "add" /\ obs.flog # {}
  /\ \E t \in DOMAIN sbio : /\ sbio[t].st = "io"
                            /\ \E k \in 1..Len(sbio[t].pagev) : sbio[t].pagev[k].blk = w.blk

\* C22: a scrub started with start = end is a no-op wherever start lies: no
\* device extent is handed to scrub_chunk, no extent read is submitted and
\* the byte counters keep their initial values.
C22_EmptyRangeNoOp ==
  (rec.pc = "ranged" /\ rec.start = rec.end) =>
    /\ rec.chunks = {} /\ rec.reads = {}
    /\ rec.stat.data_bytes_scrubbed = 0 /\ rec.stat.tree_bytes_scrubbed = 0

(***************************************************************************)
(* Properties of error recovery.                                           *)
(***************************************************************************)
\* the block rewrite from mirror m wrote page p (successfully, if ok)
BlockWrote(m, p, ok) ==
  \E e \in rec.wlog : e.via = "block" /\ e.from = m /\ e.page = p /\ (ok => e.ok)

\* C9: in a read-write, non-replace scrub, once the failed mirror has failed
\* its page-by-page recheck and another mirror m has rechecked with no I/O
\* error and a valid checksum/header, every page of the failed mirror's
\* block has been written from m; and when all these writes succeeded the
\* failed mirror holds the expected content, corrected_errors is exactly 1
\* and uncorrectable_errors is still 0.
C9_RewriteFromCleanMirror ==
  (~rec.is_super /\ ~rec.readonly /\ ~rec.is_dev_replace) =>
    \A m \in rec.clean_other :
      /\ \A p \in RecPageSet : BlockWrote(m, p, FALSE)
      /\ (\A p \in RecPageSet : BlockWrote(m, p, TRUE)) =>
           /\ rec.stat.corrected_errors = 1
           /\ rec.stat.uncorrectable_errors = 0
           /\ \A p \in RecPageSet : rec.disk[rec.failed][p] = "ok"

\* a checksum error on mirror 1 of a tree block repaired from mirror 2
C9_Witness ==
  /\ rec.pc = "done" /\ ~rec.readonly /\ ~rec.is_dev_replace /\ rec.is_metadata
  /\ rec.failed = 1 /\ rec.clean_other = {2}
  /\ rec.stat.csum_errors = 1 /\ rec.stat.corrected_errors = 1
  /\ \A p \in RecPageSet : BlockWrote(2, p, TRUE)

\* C10: whenever corrected_errors has been incremented, either a mirror
\* other than the failed one was re-read with no I/O error and passed the
\* checksum/header verification, or every page of the failed mirror whose
\* re-read failed was overwritten, successfully, with the page of another
\* mirror that had been read without I/O error (an up-to-date page of the
\* page cache written by the nodatasum fixup is accepted as such a page).
C10_CorrectedHasGoodSource ==
  rec.stat.corrected_errors > 0 =>
    \/ rec.clean_other # {}
    \/ \A p \in rec.badpages :
         \E e \in rec.wlog : /\ e.via \in {"block", "page", "readpath", "pagecache"}
                             /\ e.page = p /\ e.ok /\ e.clean
                             /\ e.from # rec.failed

\* page p of mirror m was read without I/O error by the last recheck of m
PageIoClean(m, p) ==
  /\ rec.sb[m].buf[p] # "none" /\ ~rec.sb[m].rfail[p] /\ ~rec.sb[m].io_error[p]

\* the successful page-wise writes over page p of the failed mirror
PageWrites(p) == {e \in rec.wlog : e.via = "page" /\ e.page = p /\ e.ok}

\* C11: in a read-write, non-replace scrub of a multi-page block with a
\* checksum, when no other mirror rechecked clean and every page of the
\* failed mirror whose re-read failed has an I/O-clean counterpart on another
\* mirror, recovery has, at its end, overwritten each of these pages from an
\* I/O-clean page of another mirror and no other page; and when the failed
\* mirror then holds the expected content, corrected_errors is 1.
C11_PageWiseRepair ==
  ( /\ rec.pc = "done" /\ ~rec.is_super /\ ~rec.readonly /\ ~rec.is_dev_replace
    /\ rec.is_metadata /\ rec.badpages # {} /\ rec.clean_other = {}
    /\ rec.rd = 0 /\ rec.wr = 0 /\ rec.al = 0
    /\ \A p \in rec.badpages :
         \E m \in 1..rec.nm : m # rec.failed /\ PageIoClean(m, p) ) =>
    /\ \A p \in RecPageSet :
         IF p \in rec.badpages
         THEN \E e \in PageWrites(p) : e.from # rec.failed /\ e.clean
         ELSE PageWrites(p) = {}
    /\ (\A p \in RecPageSet : rec.disk[rec.failed][p] = "ok") =>
         rec.stat.corrected_errors = 1

\* page p is bad on every mirror: its device is missing or its sector does
\* not hold the expected content
SamePageBad(p) == \A m \in 1..rec.nm : ~rec.bdev[m] \/ rec.disk0[m][p] # "ok"

\* C12: in a scrub that is not read-only, when the same page of a tree
\* block or of a data block with checksum is bad on every mirror, recovery
\* ends with uncorrectable_errors incremented by exactly 1 and
\* corrected_errors unchanged.
C12_SamePageBadUncorrectable ==
  ( /\ rec.pc = "done" /\ ~rec.is_super /\ ~rec.readonly
    /\ (rec.is_metadata \/ rec.have_csum)
    /\ \E p \in RecPageSet : SamePageBad(p) ) =>
    rec.stat.uncorrectable_errors = 1 /\ rec.stat.corrected_errors = 0

\* the super block was read with an I/O error or holds a wrong header or
\* checksum
SuperFaulty == rec.rd > 0 \/ rec.disk0[rec.failed][1] # "ok"

\* C13: a faulty super block is only reported: when its handling is over
\* super_errors has been incremented exactly once, no write has been issued,
\* the media are as they were, and corrected_errors, uncorrectable_errors,
\* read_errors, csum_errors and verify_errors are unchanged.
C13_SuperOnlyReported ==
  (rec.is_super /\ rec.pc = "done" /\ SuperFaulty) =>
    /\ rec.stat.super_errors = 1
    /\ rec.wlog = {} /\ rec.disk = rec.disk0
    /\ rec.stat.corrected_errors = 0 /\ rec.stat.uncorrectable_errors = 0
    /\ rec.stat.read_errors = 0 /\ rec.stat.csum_errors = 0
    /\ rec.stat.verify_errors = 0

\* a super block with a wrong checksum has been through scrub_checksum and
\* is counted once
C13_Witness ==
  /\ rec.is_super /\ rec.pc = "done" /\ rec.nm = 1 /\ rec.rd = 0
  /\ rec.disk0[1][1] = "corrupt" /\ rec.stat.super_errors = 1
  /\ rec.wlog = {}

\* the writes of page p that reached the replace target
TargetWrites(p) == {e \in rec.wlog : e.via = "target" /\ e.page = p /\ e.ok}
\* the mirrors holding an I/O-clean copy of page p
IoCleanMirrors(p) == {m \in 1..rec.nm : PageIoClean(m, p)}

\* C14: in replace mode, when no mirror is fully clean and nothing fails
\* but the reads of unreadable sectors, the page loop writes each page to
\* the target from the first mirror whose copy of the page is I/O-clean; a
\* page with no I/O-clean copy is written as zeros and the block is counted
\* as an error that was not corrected.
C14_ReplaceFromIoCleanPages ==
  ( /\ rec.pc = "done" /\ rec.is_dev_replace /\ ~rec.is_super
    /\ rec.pg > Cardinality(RecPageSet)
    /\ rec.rd = 0 /\ rec.wr = 0 /\ rec.al = 0 ) =>
    \A p \in RecPageSet :
      IF IoCleanMirrors(p) # {}
      THEN \A e \in TargetWrites(p) :
             e.clean /\ \A m \in IoCleanMirrors(p) : e.from <= m
      ELSE /\ \A e \in TargetWrites(p) : e.data = "zero"
           /\ rec.stat.uncorrectable_errors = 1

\* the block completing in this step had an I/O error on one of its pages
IoErrorSeen ==
  rec'.rd > rec.rd \/ \E p \in RecPageSet : rec.disk[rec.failed][p] = "unreadable"

\* the writes to the replace target issued in this step
CompletionWrites == {e \in rec'.wlog \ rec.wlog : e.via = "target"}

\* a block that goes through completion without entering recovery is
\* written to the replace target in replace mode, and only then
PassedIsWrittenInReplace ==
  rec'.pc # "entry" => (CompletionWrites # {} <=> rec.is_dev_replace)

\* C23 as stated: when a block completes, scrub_handle_errored_block is
\* entered if and only if an I/O error was seen on one of its pages or its
\* checksum/header verification failed; a block that passes is written to
\* the replace target in replace mode only.
C23_RecoveryIffFaulty ==
  [][rec.pc = "complete" =>
       /\ (rec'.pc = "entry") <=>
             (IoErrorSeen \/ (IF rec.is_super THEN scrub_checksum_super(rec).ret # 0
                              ELSE rec'.ret # 0))
       /\ PassedIsWrittenInReplace]_vars

\* C23, amended: a data or tree block enters scrub_handle_errored_block if
\* and only if an I/O error was seen on one of its pages or its verification
\* failed; a super block enters it if and only if an I/O error was seen (a
\* failed super block verification is counted by the verifier); a block that
\* passes is written to the replace target in replace mode only.
C23_RecoveryIffFaultyExceptSuper ==
  [][rec.pc = "complete" =>
       /\ (rec'.pc = "entry") <=> (IoErrorSeen \/ (~rec.is_super /\ rec'.ret # 0))
       /\ PassedIsWrittenInReplace]_vars

\* a tree block read without I/O error has failed its verification and
\* entered recovery
C23_Witness ==
  /\ rec.pc = "entry" /\ ~rec.is_super /\ rec.is_metadata
  /\ rec.ret # 0 /\ rec.rd = 0
  /\ \A p \in RecPageSet : rec.disk[rec.failed][p] # "unreadable"

\* C29: a recovery in which an allocation failed (the array of recheck
\* blocks, a recheck page, the descriptor of the no-checksum fixup, the path
\* of the fixup worker) ends with malloc_errors incremented, the block
\* counted uncorrectable once, and no repair write issued.
C29_RecoveryAllocFailure ==
  (rec.pc = "done" /\ rec.nomem # "none") =>
     /\ rec.stat.malloc_errors = 1
     /\ rec.stat.uncorrectable_errors = 1
     /\ rec.wlog = {}

\* C33: a recovery of a data or tree block in a scrub that is not read-only
\* (the deferred fixup worker included) ends with exactly one of
\* unverified_errors, corrected_errors, uncorrectable_errors incremented, by
\* exactly one, in normal mode and in replace mode.
C33_OneVerdictPerRecovery ==
  (rec.pc = "done" /\ rec.recovery /\ ~rec.is_super /\ ~rec.readonly) =>
     rec.stat.unverified_errors + rec.stat.corrected_errors
       + rec.stat.uncorrectable_errors = 1

\* C34: in a read-only scrub the recovery of a block never issues a write
\* to any device, leaves the media as they were and never increments
\* corrected_errors.
C34_ReadOnlyNeverWrites ==
  (rec.recovery /\ rec.readonly) =>
     /\ rec.wlog = {}
     /\ rec.disk = rec.disk0
     /\ rec.stat.corrected_errors = 0

\* a read-only recovery is over although the failed mirror is bad and
\* another mirror holds a good copy
C34_Witness ==
  /\ rec.pc = "done" /\ rec.recovery /\ rec.readonly /\ ~rec.is_super
  /\ rec.disk0[rec.failed][1] # "ok"
  /\ \E m \in 1..rec.nm : /\ m # rec.failed /\ rec.bdev[m]
                           /\ \A p \in RecPageSet : rec.disk0[m][p] = "ok"

(***************************************************************************)
(* Properties of the rate controller.                                      *)
(***************************************************************************)
\* the algorithm the controller is specified by, for elapsed < deadline
SpecifiedRate(target, progress, dl, elapsed) ==
  LET remaining_bytes == IF target - progress > BioBytes
                         THEN target - progress ELSE BioBytes
      bytes_per_sec == CeilDiv(remaining_bytes, dl - elapsed)
      n == CeilDiv(bytes_per_sec, BioBytes)
  IN IF bytes_per_sec < BioBytes
     THEN << 1, BioBytes \div bytes_per_sec >>
     ELSE << IF n < 1 THEN 1 ELSE IF n > MAX_BIOS_PER_SCTX THEN MAX_BIOS_PER_SCTX ELSE n,
             1 >>

\* C15: for elapsed < deadline the output of the controller equals that of
\* the specified algorithm, for all inputs.
C15_RateAsSpecified ==
  (rec.pc = "rated" /\ rec.elapsed < rec.deadline) =>
    << rec.bios_per_sctx, rec.delay >> =
      SpecifiedRate(rec.used_bytes, rec.total_scrubbed, rec.deadline, rec.elapsed)

\* C16: once elapsed >= deadline the controller outputs a pool of
\* MAX_BIOS_PER_SCTX and a delay of 0.
C16_PastDeadlineMaxPool ==
  (rec.pc = "rated" /\ rec.elapsed >= rec.deadline) =>
    rec.bios_per_sctx = MAX_BIOS_PER_SCTX /\ rec.delay = 0

\* C17: for every input the pool size the controller returns lies within
\* 1..MAX_BIOS_PER_SCTX.
C17_PoolSizeInRange ==
  rec.pc = "rated" => rec.bios_per_sctx \in 1..MAX_BIOS_PER_SCTX

(***************************************************************************)
(* Properties of the range bitmap.                                         *)
(***************************************************************************)
\* C20: the bitmap behaves like a set of marked granules: for every range
\* inside the address space that starts on a granule, when no allocation
\* fails, mark and unmark return 0 and add or remove exactly the granules
\* overlapping the range, and check changes nothing and returns 1 when all
\* overlapping granules were marked and 0 otherwise.
C20_BitmapIsSetOfGranules ==
  (rec.pc = "bmap" /\ rec.op # "none" /\ ~rec.nomem /\ rec.aligned) =>
    rec.ret = rec.wantret /\ Marked(rec.tree) = rec.want

\* C19: in a scrub that is not a replace, a range all of whose pages had an
\* ADD event processed, and no MODIFY event since, is scrubbed without a
\* read and counted as skipped; the blocks of a range whose last processed
\* event is a MODIFY are read again.
C19_AddedRangeSkipped ==
  (rec.pc = "duet" /\ rec.op = "scrub" /\ ~rec.is_dev_replace) =>
    IF rec.x \subseteq rec.added
    THEN rec.read = {} /\ rec.skipped = 1
    ELSE (rec.x \ rec.added) \subseteq rec.read

\* C36: at most one scrub context is attached to a device: dev->scrub_device
\* names the one caller between attachment and detachment and is NULL when
\* there is none; a btrfs_scrub_dev that reaches the test while a context is
\* attached returns -EINPROGRESS and leaves the attachment alone; and a
\* context is attached only in a step that found dev->scrub_device NULL.
C36_OneContextPerDevice ==
  /\ [](rec.pc = "attach" =>
          /\ Cardinality({c \in Callers : Attached(c)}) <= 1
          /\ \A c \in Callers : Attached(c) <=> rec.scrub_device = c)
  /\ [][rec.pc = "attach" =>
          \A c \in Callers :
            /\ (rec.call[c].pc = "lock" /\ rec'.call[c].pc # "lock"
                  /\ rec.scrub_device # 0) =>
                 /\ rec'.call[c].pc = "returned" /\ rec'.call[c].ret = -EINPROGRESS
                 /\ rec'.scrub_device = rec.scrub_device
            /\ (~Attached(c) /\ rec'.scrub_device = c) => rec.scrub_device = 0]_vars

\* a second caller was refused with -EINPROGRESS while the context of a
\* first is attached, and a third holds device_list_mutex before the test
C36_Witness ==
  /\ rec.pc = "attach"
  /\ \E c1, c2, c3 \in Callers :
       /\ Attached(c1) /\ rec.call[c1].calls = 2
       /\ rec.call[c2].pc = "returned" /\ rec.call[c2].ret = -EINPROGRESS
       /\ rec.call[c3].pc = "lock" /\ ~rec.replace_ongoing

\* C37: in every reachable state 0 <= bios_in_flight <= bios_allocated, and
\* both counters are 0 exactly when no submitted batch, read or write, is
\* unfinished or withheld.
C37_InFlightWithinAllocated ==
  rec.pc = "count" =>
    /\ 0 <= rec.bios_in_flight /\ rec.bios_in_flight <= rec.bios_allocated
    /\ (rec.bios_in_flight = 0 /\ rec.bios_allocated = 0)
         <=> (\A k \in CountBatches : rec.b[k] \notin {"io", "withheld"})

\* C38: the pool size bios_per_sctx stays within 1..MAX_BIOS_PER_SCTX in
\* every reachable state, under repeated one-slot growth by the walker and
\* under the shrinks computed from any output of the controller.
C38_PoolSizeWithinBounds ==
  rec.pc = "pool" => rec.bios_per_sctx \in 1..MAX_BIOS_PER_SCTX

\* C39: a pool shrink is driven only by the latest decision of the rate
\* controller: when the evaluation a completing batch makes asks for a pool
\* at least as large as the current one, pending_removals is 0 afterwards
\* (scrub_remove_bio frees a batch only while pending_removals is not 0) and
\* the batch stays in the pool.
C39_ShrinkOnlyByLatestDecision ==
  [][\A s \in DOMAIN sbio :
       ( /\ sbio[s].st = "wrapq"
         /\ s \notin DOMAIN sbio' \/ sbio'[s].st # "wrapq"
         /\ NeedAdjust(now')
         /\ scrub_adjust_rate(UsedBytes, deadline, now',
               stat.data_bytes_scrubbed + stat.tree_bytes_scrubbed)[1] >= bios_per_sctx )
       => /\ pending_removals' = 0
          /\ s \in DOMAIN sbio']_vars

\* C40: a duet_fetch on a registered task returns 0 with
\* itret = min(itreq, items pending in the tree of the task), at most itreq
\* items; every returned item is out of the tree and was handed to no
\* earlier fetch; a duet_fetch with a task id that is not registered returns
\* an error and leaves every tree as it was.
C40_FetchAtMostItreq ==
  /\ [](rec.pc = "fetch" /\ rec.last.taskid \in 1..FetchTasks =>
          /\ rec.last.ret = 0
          /\ Len(rec.last.items) = Min(rec.last.itreq, rec.last.pending)
          /\ Len(rec.last.items) <= rec.last.itreq
          /\ ~rec.last.twice)
  /\ [][(rec.pc = "fetch" /\ rec'.last.tick # rec.last.tick) =>
          IF rec'.last.taskid \in 1..FetchTasks
          THEN \A i \in 1..Len(rec'.last.items) :
                 \A n \in rec'.itmtree[rec'.last.taskid] : n.id # rec'.last.items[i]
          ELSE rec'.last.ret # 0 /\ rec'.itmtree = rec.itmtree]_vars

\* C35: in replace mode the filter never makes the scrub skip: every block
\* of every extent portion is read and nothing is counted as skipped,
\* whatever the bitmap holds.
C35_ReplaceNeverSkips ==
  (rec.pc = "duet" /\ rec.op = "scrub" /\ rec.is_dev_replace) =>
    rec.read = rec.x /\ rec.skipped = 0

\* a replace has scrubbed an extent portion of several blocks all of which
\* the bitmap reports as done
C35_Witness ==
  /\ rec.pc = "duet" /\ rec.op = "scrub" /\ rec.is_dev_replace
  /\ Cardinality(rec.x) > 1 /\ rec.x \subseteq rec.added
  /\ \A b \in rec.x : duet_check(rec.tree, b, BtRange) = 1
  /\ rec.read = rec.x

(***************************************************************************)
(* The pipeline under fair scheduling, without cancel requests: the walker *)
(* thread runs when it can, queued works and armed timers run, a caller of *)
(* btrfs_scrub_pause returns when it can and calls btrfs_scrub_continue    *)
(* afterwards (the transaction commit calls the two in pairs).             *)
(***************************************************************************)
WalkerStep ==
  \/ ScrubDevStart \/ ScrubSupers \/ SupersWait \/ EnumerateChunks \/ StripeWait
  \/ StripeReada \/ StripeLoop \/ PauseProperly \/ PauseWait \/ PauseOver
  \/ PauseFree \/ StripeInner \/ StripeAgain \/ ScrubExtent \/ AddGrab \/ AddGrow
  \/ AddSubmit \/ AddAppend \/ PagesEnd \/ StripeOut \/ ChunkWait \/ ChunkWorkers
  \/ ChunkPaused \/ TailAllocated \/ TailInFlight \/ TailWorkers \/ Detach
  \/ scrub_free_ctx

EndIoStep == \E s \in DOMAIN sbio : scrub_bio_end_io_worker(s)
TimerStep == \E s \in DOMAIN sbio : scrub_bio_end_io_timer(s)
WrapupStep == \E s \in DOMAIN sbio : scrub_bio_end_io_wrapup_worker(s)
RemoveStep == (\E s \in DOMAIN sbio : RmStart(s)) \/ RmList \/ RmCurr

FairNext ==
  \/ WalkerStep \/ WalkerSleep \/ WalkerTimeout
  \/ EndIoStep \/ TimerStep \/ WrapupStep \/ RemoveStep
  \/ scrub_fixup_nodatasum
  \/ PauseReq \/ PauseAck \/ Continue \/ PauserSleep

Fairness ==
  /\ WF_vars(WalkerStep)
  /\ WF_vars(EndIoStep) /\ WF_vars(TimerStep) /\ WF_vars(WrapupStep)
  /\ WF_vars(RemoveStep)
  /\ WF_vars(scrub_fixup_nodatasum)
  /\ WF_vars(PauseAck) /\ WF_vars(Continue)

FairSpec == Init /\ [][FairNext]_vars /\ Fairness

====
